---- MODULE Spec2Model ----
(***************************************************************************)
(* Authentication / session state machine of the care-management client:   *)
(* the Session Watcher (services/auth.ts onAuthStateChange), the Auth      *)
(* Actions (services/auth.ts), and the Session Context (AuthProvider).     *)
(* The identity store and the directory store are the remote backend: each *)
(* remote call is a suspension point and may fail.                         *)
(***************************************************************************)
EXTENDS Integers, Sequences, FiniteSets, TLC

VARIABLES
    directory,      \* 'users' collection: uid -> Identity Record or Nil
    accounts,       \* identity-store credentials: set of uids that can sign in
    remoteSession,  \* auth.currentUser: uid of the signed-in principal or None
    delivered,      \* session notifications delivered so far, in backend order
    handlers,       \* one record per delivered notification: its handler's position
    cbLog,          \* arguments of the observer callback, in invocation order
    ctx,            \* Session Context state {user, company, loading, error}
    userWriter,     \* who wrote ctx.user last (handler index, or 0: logout / nobody)
    calls,          \* Session Context calls (login, logout, sendPasswordReset) started
    started,        \* calls started so far: of the Session Context, of Auth Actions directly
    budget,         \* operations this run may start
    subscribed,     \* the Session Watcher is attached (AuthProvider mounted)
    form,           \* Login Form Controller state (useLoginForm)
    companies,      \* 'companies' collection: tenant id -> Tenant Record or Nil
    promptTemplates, \* 'prompt_templates' collection: template id -> template or Nil
    ret             \* outcome of the most recent directly started Auth Action

vars == <<directory, accounts, remoteSession, delivered, handlers, cbLog, ctx,
          userWriter, calls, started, budget, subscribed, form, companies,
          promptTemplates, ret>>

-----------------------------------------------------------------------------
(* Bounds of the model *)

\* operations a run may start (notifications delivered, Session Context calls,
\* direct Auth Action calls): of the client as it runs, of the Auth Actions
\* called directly, of both together
MaxOps == 3
MaxOpsActions == 3
MaxOpsAll == 2
MaxOpsForm == 2
\* notifications of a run in which the watcher may be detached
MaxOpsDetach == 3
\* operations of a run that initialises the test data
MaxOpsTestData == 4

-----------------------------------------------------------------------------
(* Absent values: None for string-valued fields, Nil for record-valued ones *)

None == "none"
Nil == [nil |-> TRUE]

(* Remote data the model starts from *)

Principals == {"admin1", "inact1", "user2", "orphan"}
Tenants == {"t1", "t2"}

EmailOf(uid) ==
    CASE uid = "testadmin" -> "admin@test-company.com"
      [] uid = "testuser" -> "user@test-company.com"
      [] OTHER -> uid \o "@example.com"
NameOf(uid) == "name-" \o uid
PasswordOf(uid) == IF uid \in {"testadmin", "testuser"} THEN "password123" ELSE "pw-" \o uid

\* types/index.ts User
User(id, email, name, company_id, role, is_active) ==
    [id |-> id, email |-> email, name |-> name, company_id |-> company_id,
     role |-> role, is_active |-> is_active, last_login |-> 0, updated_at |-> 0]

\* types/index.ts Company
Company(id) == [id |-> id, name |-> "company-" \o id, plan |-> "basic"]

\* ids the identity store gives to credentials created later: by createUser,
\* and by initializeTestData for its administrator and its ordinary user
TestUids == {"testadmin", "testuser"}
AllUids == Principals \cup {"new1"} \cup TestUids

InitDirectory ==
    [u \in AllUids |->
        CASE u = "admin1" -> User(u, EmailOf(u), NameOf(u), "t1", "admin", TRUE)
          [] u = "inact1" -> User(u, EmailOf(u), NameOf(u), "t1", "user", FALSE)
          [] u = "user2"  -> User(u, EmailOf(u), NameOf(u), "t2", "user", TRUE)
          [] OTHER        -> Nil]

\* initTestData.ts: the tenant initializeTestData writes
TestCompanyId == "test-company-001"
TestCompany == [id |-> TestCompanyId, name |-> "care service company", plan |-> "premium"]

\* initTestData.ts systemPromptTemplates: the templates initializeTestData
\* writes, in order (id system-template-<i+1>)
TemplateIds == {"system-template-1", "system-template-2", "system-template-3",
                "system-template-4"}
SystemPromptTemplates ==
    << [id |-> "system-template-1", category |-> "standard", is_default |-> TRUE],
       [id |-> "system-template-2", category |-> "home_care", is_default |-> FALSE],
       [id |-> "system-template-3", category |-> "dementia", is_default |-> FALSE],
       [id |-> "system-template-4", category |-> "rehabilitation", is_default |-> FALSE] >>

\* 'companies' collection at the start
InitCompanies ==
    [t \in Tenants \cup {"t3", TestCompanyId} |-> IF t \in Tenants THEN Company(t) ELSE Nil]

(* Errors raised by the remote stores: {code, message}; a plain Error has no code *)

Err(code, message) == [code |-> code, message |-> message]
FsError == Err("unavailable", "firestore offline")
NetError == Err("auth/network-request-failed", "network error")

(* User-facing messages of the source (transliterated) *)

MsgCompanyNotFound == "company info not found"
MsgCompanyFetchFailed == "failed to fetch company info"
MsgAuthStateFailed == "failed to check auth state"

-----------------------------------------------------------------------------
(* Outcome Envelope: ApiResponse<T> *)

Success(data, message) ==
    [success |-> TRUE, data |-> data, error |-> Nil, message |-> message]

Failure(code, message) ==
    [success |-> FALSE, data |-> Nil, error |-> Err(code, message), message |-> None]

\* JavaScript's a || b on strings: an absent or empty a yields b
OrElse(a, b) == IF a = None \/ a = "" THEN b ELSE a

-----------------------------------------------------------------------------
(* What an Auth Action hands to its caller: an envelope, or a raised failure *)

Returned(env) == [raised |-> FALSE, env |-> env]
Raised(error) == [raised |-> TRUE, env |-> Nil]

-----------------------------------------------------------------------------
(* getCompanyData: one directory read inside try/catch *)

\* read: [ok |-> BOOLEAN, err |-> error of a failed read]
GetCompanyData(companyId, read) ==
    IF ~read.ok
    THEN Failure("company-fetch-failed", OrElse(read.err.message, MsgCompanyFetchFailed))
    ELSE IF companies[companyId] = Nil
         THEN Failure("company-fetch-failed", OrElse(MsgCompanyNotFound, MsgCompanyFetchFailed))
         ELSE Success(companies[companyId], None)

ReadOutcomes == {[ok |-> TRUE, err |-> Nil], [ok |-> FALSE, err |-> FsError]}

-----------------------------------------------------------------------------
(* Session Context: the observer callback of AuthProvider.useEffect *)

\* getIdToken(): every issue is a token of its own
Token(issuedTo, n) == "token-" \o issuedTo \o "-" \o ToString(n)

\* AuthUser: the Identity Record snapshot plus the token
AuthUser(userData, token) ==
    [id |-> userData.id, email |-> userData.email, name |-> userData.name,
     company_id |-> userData.company_id, role |-> userData.role,
     is_active |-> userData.is_active, last_login |-> userData.last_login,
     updated_at |-> userData.updated_at, token |-> token]

\* the mutant also drops the recorded error
CallbackAbsentClearsErrorMutant(c) ==
    [c EXCEPT !.user = Nil, !.company = Nil, !.loading = FALSE, !.error = None]

\* callback(null): setUser(null); setCompany(null); finally setLoading(false)
CallbackAbsent(c) == [c EXCEPT !.user = Nil, !.company = Nil, !.loading = FALSE]

\* callback(authUser) up to its await: setUser(authUser)
CallbackUser(c, authUser) == [c EXCEPT !.user = authUser]

\* the mutant invalidates the session when the tenant fetch fails
CallbackTenantInvalidateMutant(c, outcome) ==
    IF outcome.raised
    THEN [c EXCEPT !.error = MsgAuthStateFailed, !.loading = FALSE]
    ELSE IF outcome.env.success /\ outcome.env.data # Nil
         THEN [c EXCEPT !.company = outcome.env.data, !.loading = FALSE]
         ELSE [c EXCEPT !.user = Nil, !.error = MsgCompanyFetchFailed, !.loading = FALSE]

\* callback(authUser) after its await getCompanyData settled: the try's rest,
\* the catch, and the finally
CallbackTenant(c, outcome) ==
    IF outcome.raised
    THEN [c EXCEPT !.error = MsgAuthStateFailed, !.loading = FALSE]
    ELSE IF outcome.env.success /\ outcome.env.data # Nil
         THEN [c EXCEPT !.company = outcome.env.data, !.loading = FALSE]
         ELSE [c EXCEPT !.error = MsgCompanyFetchFailed, !.loading = FALSE]

\* isAuthenticated = !!user
IsAuthenticated(c) == c.user # Nil

\* isAdmin = user?.role === 'admin'
IsAdmin(c) == c.user # Nil /\ c.user.role = "admin"

\* the mutant admits the content while the context is loading
RequireAuthNoLoadingMutant(c, requireAdmin) ==
    IF ~IsAuthenticated(c) THEN "fallback"
    ELSE IF requireAdmin /\ ~IsAdmin(c) THEN "adminRequired"
    ELSE "children"

\* RequireAuth: what the gate renders
RequireAuth(c, requireAdmin) ==
    IF c.loading THEN "loading"
    ELSE IF ~IsAuthenticated(c) THEN "fallback"
    ELSE IF requireAdmin /\ ~IsAdmin(c) THEN "adminRequired"
    ELSE "children"

-----------------------------------------------------------------------------
(* Session Watcher: onAuthStateChange's listener, one handler per notification *)

\* trace: the remote calls the handler made and its callback invocations, in
\* order; found: what the directory read said of the principal's record
Handler(arg, pc) ==
    [arg |-> arg, pc |-> pc, userData |-> Nil, authUser |-> Nil,
     failed |-> FALSE, raised |-> FALSE, found |-> None, trace |-> <<>>,
     companyResult |-> Nil]

\* the part of the state a session change and its notification touch
Cur ==
    [remoteSession |-> remoteSession, delivered |-> delivered, handlers |-> handlers,
     cbLog |-> cbLog, ctx |-> ctx, userWriter |-> userWriter]

\* the step's effect. The unsubscribe handle is called only by the cleanup of
\* AuthProvider's effect, at unmount: from then on React drops the provider's
\* setUser / setCompany / setError / setLoading, while the listener's handlers
\* go on running and invoking the callback
Becomes(w) ==
    /\ remoteSession' = w.remoteSession
    /\ delivered' = w.delivered
    /\ handlers' = w.handlers
    /\ cbLog' = w.cbLog
    /\ ctx' = IF subscribed THEN w.ctx ELSE ctx
    /\ userWriter' = IF subscribed THEN w.userWriter ELSE userWriter

\* the listener's handler h invokes callback(x): the callback runs up to its
\* first await
InvokeCallback(w, h, x) ==
    [w EXCEPT !.cbLog = Append(@, x),
              !.ctx = IF x = Nil THEN CallbackAbsent(@) ELSE CallbackUser(@, x),
              !.userWriter = h,
              !.handlers[h].trace =
                  Append(@, IF x = Nil THEN "callback(null)" ELSE "callback(authUser)")]

\* the handler reaches position pc
HandlerAt(w, h, pc) == [w EXCEPT !.handlers[h].pc = pc]

\* an awaited remote call of handler h settled
HandlerCalled(w, h, name) == [w EXCEPT !.handlers[h].trace = Append(@, name)]

\* the mutant lets the failure escape the listener
HandlerCatchRaiseMutant(w, h) ==
    [HandlerAt(w, h, "done") EXCEPT !.handlers[h].failed = TRUE,
                                    !.handlers[h].raised = TRUE]

\* the listener's catch: callback(null)
HandlerCatch(w, h) ==
    InvokeCallback([HandlerAt(w, h, "done") EXCEPT !.handlers[h].failed = TRUE], h, Nil)

\* the mutant reports an orphaned credential without revoking the session
HandlerAfterGetDocNoRevokeMutant(userDoc) ==
    IF userDoc # Nil THEN "getIdToken" ELSE "callbackAbsent"

\* where the listener goes once the directory read returned userDoc
HandlerAfterGetDoc(userDoc) ==
    IF userDoc # Nil THEN "getIdToken" ELSE "signOut"

\* the identity store makes p the signed-in principal and notifies the listener,
\* which runs up to its first await: callback(null) at once for an absent
\* principal, the directory read for a present one
Deliver(w, p) ==
    LET h == Len(w.handlers) + 1
        w1 == [w EXCEPT !.remoteSession = p, !.delivered = Append(@, p)]
    IN  IF ~subscribed
        THEN [w EXCEPT !.remoteSession = p]
        ELSE IF p = None
        THEN InvokeCallback([w1 EXCEPT !.handlers = Append(@, Handler(p, "done"))], h, Nil)
        ELSE [w1 EXCEPT !.handlers = Append(@, Handler(p, "getDoc"))]

\* a remote call sets the signed-in principal: the listener is notified only
\* when the principal changed
SessionBecomes(w, p) == IF p = w.remoteSession THEN w ELSE Deliver(w, p)

\* operations so far: notifications delivered and calls started
Ops(w) == Len(w.delivered) + started

\* one more operation may start
MayStart == Ops(Cur) < budget

\* a remote call may set the signed-in principal to p: a sign-in that changes
\* the principal is one more notification and counts as an operation; the
\* sign-out of a running handler or call is the end of an operation counted
\* already
CanBecome(w, p) == p = w.remoteSession \/ ~subscribed \/ p = None \/ Ops(w) < budget

\* the backend changes the session on its own: a restored session at start-up,
\* a sign-in or sign-out in another tab, an expired session
BackendSessionChange(p) ==
    /\ MayStart
    /\ delivered = <<>> \/ p # remoteSession
    /\ Becomes(Deliver(Cur, p))
    /\ UNCHANGED <<directory, accounts, calls, started, budget, companies, promptTemplates, subscribed, form, ret>>

\* await getDoc(doc(db, 'users', uid)) returns
HandlerGetDoc(h, read) ==
    /\ handlers[h].pc = "getDoc"
    /\ LET w == HandlerCalled(Cur, h, "getDoc")
           userDoc == directory[handlers[h].arg]
           to == HandlerAfterGetDoc(userDoc)
       IN  Becomes(
             IF ~read.ok
             THEN HandlerCatch(w, h)
             ELSE CASE to = "getIdToken" ->
                         [HandlerAt(w, h, to) EXCEPT !.handlers[h].userData = userDoc,
                                                     !.handlers[h].found = "yes"]
                    [] to = "callbackAbsent" ->
                         InvokeCallback(
                             [HandlerAt(w, h, "done") EXCEPT !.handlers[h].found = "no"], h, Nil)
                    [] OTHER ->
                         [HandlerAt(w, h, to) EXCEPT !.handlers[h].found = "no"])
    /\ UNCHANGED <<directory, accounts, calls, started, budget, companies, promptTemplates, subscribed, form, ret>>

\* await firebaseUser.getIdToken() returns; then callback(authUser)
HandlerGetIdToken(h, ok) ==
    /\ handlers[h].pc = "getIdToken"
    /\ LET w == HandlerCalled(Cur, h, "getIdToken") IN
       IF ok
       THEN LET authUser == AuthUser(handlers[h].userData, Token("handler", h)) IN
            Becomes(InvokeCallback(
                 [HandlerAt(w, h, "getCompany") EXCEPT !.handlers[h].authUser = authUser],
                 h, authUser))
       ELSE Becomes(HandlerCatch(w, h))
    /\ UNCHANGED <<directory, accounts, calls, started, budget, companies, promptTemplates, subscribed, form, ret>>

\* signOut(auth) of the orphaned-credential branch settles. Resolved: the
\* session ends and the identity store notifies the listener at once, while the
\* handler's own continuation is still queued. Rejected: nothing changed, and
\* the continuation is the catch with its callback(null)
HandlerSignOut(h, ok) ==
    /\ handlers[h].pc = "signOut"
    /\ LET w == HandlerCalled(Cur, h, "signOut") IN
       IF ok
       THEN /\ CanBecome(Cur, None)
            /\ Becomes(HandlerAt(SessionBecomes(w, None), h, "afterSignOut"))
       ELSE Becomes(HandlerCatch(w, h))
    /\ UNCHANGED <<directory, accounts, calls, started, budget, companies, promptTemplates, subscribed, form, ret>>

\* the handler continues after await signOut(auth): callback(null)
HandlerAfterSignOut(h) ==
    /\ handlers[h].pc = "afterSignOut"
    /\ Becomes(InvokeCallback(HandlerAt(Cur, h, "done"), h, Nil))
    /\ UNCHANGED <<directory, accounts, calls, started, budget, companies, promptTemplates, subscribed, form, ret>>

\* the callback's await getCompanyData(authUser.company_id) returns
HandlerGetCompany(h, read) ==
    /\ handlers[h].pc = "getCompany"
    /\ LET companyResult == GetCompanyData(handlers[h].authUser.company_id, read) IN
       Becomes([HandlerAt(Cur, h, "done") EXCEPT
                    !.handlers[h].companyResult = companyResult,
                    !.ctx = CallbackTenant(@, Returned(companyResult))])
    /\ UNCHANGED <<directory, accounts, calls, started, budget, companies, promptTemplates, subscribed, form, ret>>

-----------------------------------------------------------------------------
(* loginUser *)

MsgLoginFailed == "login failed"
MsgLoginOk == "login succeeded"
MsgBadCredentials == "email or password is wrong"
MsgTooManyRequests == "too many login attempts"
MsgAccountDisabled == "this account is disabled"
MsgUserInfoNotFound == "user info not found"
MsgLoginError == "error in login processing"
MsgLogoutOk == "logged out"
MsgLogoutFailed == "logout failed"
MsgResetSent == "password reset mail sent"
MsgResetFailed == "password reset failed"
MsgResetUserNotFound == "no user with this email"
MsgInvalidEmail == "email format is wrong"
MsgResetError == "error in password reset processing"

(* loginUser *)

\* the catch block: maps the caught error to a failure envelope
LoginUserCatchRethrowMutant(error) == Raised(error)

LoginUserCatchSuccessFlagMutant(error) ==
    Returned([success |-> TRUE, data |-> Nil,
              error |-> Err(OrElse(error.code, "login-failed"), MsgLoginFailed),
              message |-> None])

\* the mutant returns the fixed code for every failure
LoginUserCatchFixedCodeMutant(error) ==
    Returned(Failure("login-failed", OrElse(error.message, MsgLoginFailed)))

LoginUserCatch(error) ==
    LET errorMessage ==
            CASE error.code \in {"auth/user-not-found", "auth/wrong-password"} -> MsgBadCredentials
              [] error.code = "auth/too-many-requests" -> MsgTooManyRequests
              [] error.code = "auth/user-disabled" -> MsgAccountDisabled
              [] OTHER -> OrElse(error.message, MsgLoginFailed)
    IN  Returned(Failure(OrElse(error.code, "login-failed"), errorMessage))

\* the success return: authUser = {...userData, token}
LoginUserSuccessStaleRoleMutant(userData, token) ==
    Returned(Success(AuthUser([userData EXCEPT !.role = "user"], token), MsgLoginOk))

LoginUserSuccess(userData, token) ==
    Returned(Success(AuthUser(userData, token), MsgLoginOk))

\* where loginUser goes once the directory read returned userDoc
LoginUserAfterGetDocNoRevokeMutant(userDoc) ==
    IF userDoc = Nil THEN "throwNotFound"
    ELSE IF ~userDoc.is_active THEN "throwInactive"
    ELSE "updateDoc"

LoginUserAfterGetDoc(userDoc) ==
    IF userDoc = Nil THEN "throwNotFound"
    ELSE IF ~userDoc.is_active THEN "signOut"
    ELSE "updateDoc"

\* signInWithEmailAndPassword: what the identity store can answer
SignInOutcomes(email, password) ==
    LET match == {u \in accounts : EmailOf(u) = email} IN
    (IF match = {}
     THEN {[ok |-> FALSE, uid |-> None, err |-> Err("auth/user-not-found", "no such user")]}
     ELSE {IF PasswordOf(u) = password
           THEN [ok |-> TRUE, uid |-> u, err |-> Nil]
           ELSE [ok |-> FALSE, uid |-> None, err |-> Err("auth/wrong-password", "wrong password")]
           : u \in match})
    \cup {[ok |-> FALSE, uid |-> None, err |-> e] :
            e \in {Err("auth/too-many-requests", "slow down"),
                   Err("auth/user-disabled", "disabled"),
                   NetError, Err(None, None)}}

\* signOut(auth), getIdToken(): resolved, or rejected with an error of the
\* identity store (with a mapped code, an unmapped one, or none at all)
IdentityOutcomes ==
    {[ok |-> TRUE, err |-> Nil]} \cup
    {[ok |-> FALSE, err |-> e] :
        e \in {NetError, Err("auth/too-many-requests", "slow down"), Err(None, None)}}

\* what the user types: each principal's own credentials, a wrong password, an
\* unknown address
LoginInputs ==
    {[email |-> EmailOf(u), password |-> PasswordOf(u)] : u \in Principals}
    \cup {[email |-> EmailOf("admin1"), password |-> "wrong"],
          [email |-> "nobody@example.com", password |-> "wrong"]}
ResetEmails == {EmailOf("admin1"), "nobody@example.com"}

(* Login Form Controller: useLoginForm. A field value typed into the form is *)
(* a sequence of characters; the password only counts by its length.         *)

MsgEmailRequired == "email is required"
MsgEmailFormat == "email format is wrong"
MsgPasswordRequired == "password is required"
MsgPasswordShort == "password needs 6 characters or more"

\* the characters of a field value, as the string handed to login
RECURSIVE Text(_)
Text(chars) == IF chars = <<>> THEN "" ELSE Head(chars) \o Text(Tail(chars))

\* the characters \s matches in a JavaScript regular expression. The ones a
\* string of this module cannot hold are written as their JavaScript escapes
WhiteSpace ==
    {" ", "\t", "\n", "\r", "\f", "\\v", "\\u00a0", "\\u1680", "\\u2000", "\\u2001",
     "\\u2002", "\\u2003", "\\u2004", "\\u2005", "\\u2006", "\\u2007", "\\u2008",
     "\\u2009", "\\u200a", "\\u2028", "\\u2029", "\\u202f", "\\u205f", "\\u3000",
     "\\ufeff"}

\* [^\s@]+ : one or more characters, none of them white space or @
NoSpaceNoAt(chars) ==
    chars # <<>> /\ \A k \in DOMAIN chars : chars[k] \notin WhiteSpace \cup {"@"}

\* /^[^\s@]+@[^\s@]+\.[^\s@]+$/.test(email)
MatchesEmailPattern(chars) ==
    \E at, dot \in DOMAIN chars :
        /\ at < dot
        /\ chars[at] = "@"
        /\ chars[dot] = "."
        /\ NoSpaceNoAt(SubSeq(chars, 1, at - 1))
        /\ NoSpaceNoAt(SubSeq(chars, at + 1, dot - 1))
        /\ NoSpaceNoAt(SubSeq(chars, dot + 1, Len(chars)))

\* the minimum password length of validateForm
MinPasswordLength == 6

\* the mutant accepts passwords of one character less
ValidateFormShortPasswordMutant(values) ==
    [email |-> IF values.email = <<>> THEN MsgEmailRequired
               ELSE IF ~MatchesEmailPattern(values.email) THEN MsgEmailFormat
               ELSE None,
     password |-> IF values.password = "" THEN MsgPasswordRequired
                  ELSE IF Len(values.password) < MinPasswordLength - 1 THEN MsgPasswordShort
                  ELSE None]

\* validateForm: newErrors, one entry per field (None: no error)
ValidateForm(values) ==
    [email |-> IF values.email = <<>> THEN MsgEmailRequired
               ELSE IF ~MatchesEmailPattern(values.email) THEN MsgEmailFormat
               ELSE None,
     password |-> IF values.password = "" THEN MsgPasswordRequired
                  ELSE IF Len(values.password) < MinPasswordLength THEN MsgPasswordShort
                  ELSE None]

\* Object.keys(newErrors).length === 0
NoErrors(errors) == errors.email = None /\ errors.password = None

\* the mutant invokes the success callback whatever the envelope says
HandleSubmitAfterAlwaysCallbackMutant(fm, outcome) ==
    [fm EXCEPT !.successCalls = @ + 1, !.isSubmitting = FALSE]

\* handleSubmit after await login(...): onSuccess on a success envelope, the
\* catch, and the finally
HandleSubmitAfter(fm, outcome) ==
    [fm EXCEPT !.successCalls = IF ~outcome.raised /\ outcome.env.success THEN @ + 1 ELSE @,
               !.isSubmitting = FALSE]

\* useState initial values; successCalls counts the invocations of onSuccess
InitForm ==
    [values |-> [email |-> <<>>, password |-> ""],
     errors |-> [email |-> None, password |-> None],
     isSubmitting |-> FALSE, successCalls |-> 0]

(* Session Context calls: login, logout, sendPasswordReset *)

Call(op, pc, email, password) ==
    [op |-> op, pc |-> pc, email |-> email, password |-> password, uid |-> None,
     userData |-> Nil, trace |-> <<>>, failedCall |-> FALSE, stamped |-> FALSE,
     token |-> None, caught |-> Nil, submit |-> FALSE, args |-> Nil, currentUser |-> Nil,
     created |-> {}, writes |-> <<>>, before |-> Nil, inner |-> Nil, result |-> Nil]

\* a call that returned keeps only its place in calls; ret holds what it returned
Finished(op) == Call(op, "done", None, None)

\* login's wrapper around loginUser's outcome: what it returns
LoginResult(outcome) ==
    IF outcome.raised THEN Failure("login-error", MsgLoginError) ELSE outcome.env

\* the mutant leaves loading set when the login failed
LoginFinallyKeepsLoadingMutant(c, outcome) ==
    IF outcome.raised
    THEN [c EXCEPT !.error = MsgLoginError]
    ELSE IF ~outcome.env.success
         THEN [c EXCEPT !.error = OrElse(outcome.env.error.message, MsgLoginFailed)]
         ELSE [c EXCEPT !.loading = FALSE]

\* login's wrapper: what it does to the Session Context, with its finally
LoginFinally(c, outcome) ==
    IF outcome.raised
    THEN [c EXCEPT !.error = MsgLoginError, !.loading = FALSE]
    ELSE IF ~outcome.env.success
         THEN [c EXCEPT !.error = OrElse(outcome.env.error.message, MsgLoginFailed),
                        !.loading = FALSE]
         ELSE [c EXCEPT !.loading = FALSE]

\* login(email, password) up to its await: setLoading(true); setError(null).
\* submit: the call was made by the form's handleSubmit
LoginBegins(email, password, submit) ==
    /\ MayStart
    /\ started' = started + 1
    /\ calls' = Append(calls, [Call("login", "signIn", email, password) EXCEPT
                                  !.submit = submit])
    /\ ctx' = [ctx EXCEPT !.loading = TRUE, !.error = None]

Login(email, password) ==
    /\ LoginBegins(email, password, FALSE)
    /\ UNCHANGED <<directory, accounts, remoteSession, delivered, handlers, cbLog,
                   userWriter, budget, companies, promptTemplates, subscribed, form, ret>>

(* Login Form Controller: handleChange, handleSubmit *)

\* what the user types into the fields, which start empty
FormEmails ==
    { <<"n", "o", "t", "-", "a", "n", "-", "e", "m", "a", "i", "l">>,
      <<"a", "@", "b", ".", "c", "o", "m">>,
      <<"a", " ", "@", "b", ".", "c">>,
      <<"a", "\t", "@", "b", ".", "c">>,
      <<"a", "@", "b">>,
      <<"a", "d", "m", "i", "n", "1", "@", "e", "x", "a", "m", "p", "l", "e", ".", "c", "o", "m">>,
      <<"i", "n", "a", "c", "t", "1", "@", "e", "x", "a", "m", "p", "l", "e", ".", "c", "o", "m">>,
      <<"o", "r", "p", "h", "a", "n", "@", "e", "x", "a", "m", "p", "l", "e", ".", "c", "o", "m">> }

FormPasswords == {"12345", "123456", "pw-admin1", "pw-inact1", "pw-orphan"}

\* handleChange(field, value): sets the field and clears its error. It is run
\* by a user event, and so not while a continuation of handleSubmit is queued:
\* that one was queued by login's own continuation, not by a remote call that
\* settled, and only other continuations run before it
HandleChange(field, value) ==
    /\ \A i \in DOMAIN calls : calls[i].pc # "afterLogin"
    /\ form' = [form EXCEPT !.values[field] = value, !.errors[field] = None]
    /\ UNCHANGED <<directory, accounts, remoteSession, delivered, handlers, cbLog, ctx,
                   userWriter, calls, started, budget, companies, promptTemplates, subscribed, ret>>

\* handleSubmit(onSuccess) up to its await login(values.email, values.password),
\* or to its return when validateForm fails; run by a user event, as handleChange
HandleSubmit ==
    LET newErrors == ValidateForm(form.values) IN
    /\ \A i \in DOMAIN calls : calls[i].pc # "afterLogin"
    /\ IF ~NoErrors(newErrors)
       THEN /\ form' = [form EXCEPT !.errors = newErrors]
            /\ UNCHANGED <<directory, accounts, remoteSession, delivered, handlers, cbLog,
                           ctx, userWriter, calls, started, budget, companies, promptTemplates, subscribed, ret>>
       ELSE /\ LoginBegins(Text(form.values.email), form.values.password, TRUE)
            /\ form' = [form EXCEPT !.errors = newErrors, !.isSubmitting = TRUE]
            /\ UNCHANGED <<directory, accounts, remoteSession, delivered, handlers, cbLog,
                           userWriter, budget, companies, promptTemplates, subscribed, ret>>

\* a remote call of call i settled
Settled(f, name, ok) ==
    [f EXCEPT !.trace = Append(@, name), !.failedCall = @ \/ ~ok]

\* loginUser hands outcome to login, which updates the context and returns.
\* When handleSubmit made the call, its continuation is queued with the
\* envelope login returned
LoginReturns(w, i, f, outcome) ==
    /\ calls' = [calls EXCEPT ![i] =
                    IF f.submit
                    THEN [Finished("login") EXCEPT !.pc = "afterLogin", !.submit = TRUE,
                                                   !.result = LoginResult(outcome)]
                    ELSE Finished("login")]
    /\ ret' = [f EXCEPT !.pc = "done", !.inner = outcome, !.result = LoginResult(outcome)]
    /\ Becomes([w EXCEPT !.ctx = LoginFinally(@, outcome)])
    /\ form' = form

\* handleSubmit continues after await login(...): onSuccess on a success
\* envelope, then the finally
HandleSubmitAfterLogin(i) ==
    /\ calls[i].op = "login" /\ calls[i].pc = "afterLogin"
    /\ form' = HandleSubmitAfter(form, Returned(calls[i].result))
    /\ calls' = [calls EXCEPT ![i] = Finished("login")]
    /\ UNCHANGED <<directory, accounts, remoteSession, delivered, handlers, cbLog, ctx,
                   userWriter, started, budget, companies, promptTemplates, subscribed, ret>>

\* loginUser's try block threw error: its catch builds the envelope
LoginThrows(w, i, f, error) ==
    LoginReturns(w, i, [f EXCEPT !.caught = error], LoginUserCatch(error))

\* await signInWithEmailAndPassword returns
LoginSignIn(i, r) ==
    /\ calls[i].op = "login" /\ calls[i].pc = "signIn"
    /\ r \in SignInOutcomes(calls[i].email, calls[i].password)
    /\ LET f == Settled(calls[i], "signIn", r.ok) IN
       IF r.ok
       THEN /\ CanBecome(Cur, r.uid)
            /\ Becomes(SessionBecomes(Cur, r.uid))
            /\ calls' = [calls EXCEPT ![i] = [f EXCEPT !.pc = "getDoc", !.uid = r.uid]]
            /\ UNCHANGED <<ret, form>>
       ELSE LoginThrows(Cur, i, f, r.err)
    /\ UNCHANGED <<directory, accounts, started, budget, companies, promptTemplates, subscribed>>

\* await getDoc(doc(db, 'users', uid)) returns
LoginGetDoc(i, read) ==
    /\ calls[i].op = "login" /\ calls[i].pc = "getDoc"
    /\ LET f == Settled(calls[i], "getDoc", read.ok)
           userDoc == directory[calls[i].uid]
           to == LoginUserAfterGetDoc(userDoc)
       IN  IF ~read.ok
           THEN LoginThrows(Cur, i, f, read.err)
           ELSE CASE to = "throwNotFound" ->
                       LoginThrows(Cur, i, f, Err(None, MsgUserInfoNotFound))
                  [] to = "throwInactive" ->
                       LoginThrows(Cur, i, [f EXCEPT !.userData = userDoc],
                                   Err(None, MsgAccountDisabled))
                  [] OTHER ->
                       /\ calls' = [calls EXCEPT ![i] = [f EXCEPT !.pc = to, !.userData = userDoc]]
                       /\ Becomes(Cur)
                       /\ UNCHANGED <<ret, form>>
    /\ UNCHANGED <<directory, accounts, started, budget, companies, promptTemplates, subscribed>>

\* signOut(auth) of the inactive branch settles. Resolved: the session ends
\* and the listener is notified at once, while loginUser's continuation is
\* still queued. Rejected: nothing changed, and the continuation is the catch
LoginSignOut(i, r) ==
    /\ calls[i].op = "login" /\ calls[i].pc = "signOut"
    /\ LET f == Settled(calls[i], "signOut", r.ok) IN
       IF r.ok
       THEN /\ CanBecome(Cur, None)
            /\ Becomes(SessionBecomes(Cur, None))
            /\ calls' = [calls EXCEPT ![i] = [f EXCEPT !.pc = "afterSignOut"]]
            /\ UNCHANGED <<ret, form>>
       ELSE LoginThrows(Cur, i, f, r.err)
    /\ UNCHANGED <<directory, accounts, started, budget, companies, promptTemplates, subscribed>>

\* loginUser continues after await signOut(auth): the throw, the catch, and
\* login's continuation
LoginAfterSignOut(i) ==
    /\ calls[i].op = "login" /\ calls[i].pc = "afterSignOut"
    /\ LoginThrows(Cur, i, calls[i], Err(None, MsgAccountDisabled))
    /\ UNCHANGED <<directory, accounts, started, budget, companies, promptTemplates, subscribed>>

\* await updateDoc(..., {last_login: serverTimestamp()}) returns
LoginUpdateDoc(i, write) ==
    /\ calls[i].op = "login" /\ calls[i].pc = "updateDoc"
    /\ LET f == Settled(calls[i], "updateDoc", write.ok) IN
       IF write.ok
       THEN /\ directory' = [directory EXCEPT ![calls[i].uid].last_login = @ + 1]
            /\ calls' = [calls EXCEPT ![i] = [f EXCEPT !.pc = "getIdToken", !.stamped = TRUE]]
            /\ Becomes(Cur)
            /\ UNCHANGED <<ret, form>>
       ELSE /\ LoginThrows(Cur, i, f, write.err)
            /\ UNCHANGED directory
    /\ UNCHANGED <<accounts, started, budget, companies, promptTemplates, subscribed>>

\* await userCredential.user.getIdToken() returns
LoginGetIdToken(i, r) ==
    /\ calls[i].op = "login" /\ calls[i].pc = "getIdToken"
    /\ LET f == Settled(calls[i], "getIdToken", r.ok) IN
       IF r.ok
       THEN LoginReturns(Cur, i, [f EXCEPT !.token = Token("login", i)],
                         LoginUserSuccess(calls[i].userData, Token("login", i)))
       ELSE LoginThrows(Cur, i, f, r.err)
    /\ UNCHANGED <<directory, accounts, started, budget, companies, promptTemplates, subscribed>>

(* logoutUser and the Session Context's logout *)

\* the mutant reports success whatever the revocation did
LogoutUserAlwaysSuccessMutant(ok) == Returned(Success(Nil, MsgLogoutOk))

LogoutUser(ok) ==
    IF ok THEN Returned(Success(Nil, MsgLogoutOk))
    ELSE Returned(Failure("logout-failed", MsgLogoutFailed))

\* logout's continuation after await logoutUser(), with its finally
LogoutFinally(c, outcome) ==
    IF outcome.raised
    THEN [c EXCEPT !.error = MsgLogoutFailed, !.loading = FALSE]
    ELSE [c EXCEPT !.user = Nil, !.company = Nil, !.loading = FALSE]

\* logout() up to its await: setLoading(true); setError(null)
Logout ==
    /\ MayStart
    /\ started' = started + 1
    /\ calls' = Append(calls, Call("logout", "signOut", None, None))
    /\ ctx' = [ctx EXCEPT !.loading = TRUE, !.error = None]
    /\ UNCHANGED <<directory, accounts, remoteSession, delivered, handlers, cbLog,
                   userWriter, budget, companies, promptTemplates, subscribed, form, ret>>

\* logoutUser hands outcome to logout, which updates the context and returns
LogoutReturns(i, f, outcome) ==
    /\ calls' = [calls EXCEPT ![i] = Finished("logout")]
    /\ ret' = [f EXCEPT !.pc = "done", !.inner = outcome, !.result = Nil]
    /\ Becomes([Cur EXCEPT !.ctx = LogoutFinally(@, outcome),
                           !.userWriter = IF outcome.raised THEN @ ELSE 0])

\* logoutUser's signOut(auth) settles. Resolved: the session ends and the
\* listener is notified at once, while the continuations of logoutUser and of
\* logout are still queued. Rejected: nothing changed, and the continuations
\* are logoutUser's catch and logout's return
LogoutSignOut(i, ok) ==
    /\ calls[i].op = "logout" /\ calls[i].pc = "signOut"
    /\ LET f == Settled(calls[i], "signOut", ok) IN
       IF ok
       THEN /\ CanBecome(Cur, None)
            /\ Becomes(SessionBecomes(Cur, None))
            /\ calls' = [calls EXCEPT ![i] = [f EXCEPT !.pc = "afterSignOut"]]
            /\ UNCHANGED ret
       ELSE LogoutReturns(i, f, LogoutUser(FALSE))
    /\ UNCHANGED <<directory, accounts, started, budget, companies, promptTemplates, subscribed, form>>

\* logoutUser continues after await signOut(auth) and returns its envelope;
\* logout continues after await logoutUser(): setUser(null); setCompany(null)
LogoutAfterSignOut(i) ==
    /\ calls[i].op = "logout" /\ calls[i].pc = "afterSignOut"
    /\ LogoutReturns(i, calls[i], LogoutUser(TRUE))
    /\ UNCHANGED <<directory, accounts, started, budget, companies, promptTemplates, subscribed, form>>

(* resetPassword and the Session Context's sendPasswordReset *)

ResetOutcomes ==
    {[ok |-> TRUE, err |-> Nil]} \cup
    {[ok |-> FALSE, err |-> e] :
        e \in {Err("auth/user-not-found", "no such user"),
               Err("auth/invalid-email", "bad email"), NetError, Err(None, None)}}

ResetPassword(r) ==
    IF r.ok THEN Returned(Success(Nil, MsgResetSent))
    ELSE LET errorMessage ==
                 CASE r.err.code = "auth/user-not-found" -> MsgResetUserNotFound
                   [] r.err.code = "auth/invalid-email" -> MsgInvalidEmail
                   [] OTHER -> OrElse(r.err.message, MsgResetFailed)
         IN  Returned(Failure(OrElse(r.err.code, "password-reset-failed"), errorMessage))

SendPasswordResetResult(outcome) ==
    IF outcome.raised THEN Failure("password-reset-error", MsgResetError) ELSE outcome.env

SendPasswordResetAfter(c, outcome) ==
    IF outcome.raised THEN [c EXCEPT !.error = MsgResetError]
    ELSE IF ~outcome.env.success
         THEN [c EXCEPT !.error = OrElse(outcome.env.error.message, MsgResetFailed)]
         ELSE c

\* sendPasswordReset(email) up to its await: setError(null)
SendPasswordReset(email) ==
    /\ MayStart
    /\ started' = started + 1
    /\ calls' = Append(calls, Call("reset", "sendEmail", email, None))
    /\ ctx' = [ctx EXCEPT !.error = None]
    /\ UNCHANGED <<directory, accounts, remoteSession, delivered, handlers, cbLog,
                   userWriter, budget, companies, promptTemplates, subscribed, form, ret>>

\* await sendPasswordResetEmail returns; resetPassword returns; the wrapper continues
ResetSendEmail(i, r) ==
    /\ calls[i].op = "reset" /\ calls[i].pc = "sendEmail"
    /\ LET f == Settled(calls[i], "sendPasswordResetEmail", r.ok)
           outcome == ResetPassword(r)
       IN  /\ calls' = [calls EXCEPT ![i] = Finished("reset")]
           /\ ret' = [f EXCEPT !.pc = "done", !.inner = outcome,
                               !.result = SendPasswordResetResult(outcome)]
           /\ ctx' = SendPasswordResetAfter(ctx, outcome)
    /\ UNCHANGED <<directory, accounts, remoteSession, delivered, handlers, cbLog,
                   userWriter, started, budget, companies, promptTemplates, subscribed, form>>

\* the mutant resets the whole context
ClearedErrorResetMutant(c) == [c EXCEPT !.error = None, !.user = Nil, !.company = Nil]

\* setError(null)
ClearedError(c) == [c EXCEPT !.error = None]

\* clearError(): setError(null)
ClearError ==
    /\ ctx.error # None
    /\ ctx' = ClearedError(ctx)
    /\ UNCHANGED <<directory, accounts, remoteSession, delivered, handlers, cbLog,
                   userWriter, calls, started, budget, companies, promptTemplates, subscribed, form, ret>>

-----------------------------------------------------------------------------
(* Auth Actions started directly, as the tests of auth.test.ts and the admin *)
(* screens do. Each call is a frame in calls; each of its awaits is a step,  *)
(* so calls overlap with one another and with the watcher's handlers.        *)

MsgNoCreatePermission == "no permission to create users"
MsgCompanyMissing == "the given company was not found"
MsgUserCreated == "user created"
MsgUserCreateFailed == "user creation failed"
MsgEmailInUse == "this email is already in use"
MsgWeakPassword == "password too short (6 or more)"
MsgNoListPermission == "no permission to list this company's users"
MsgUsersFetchFailed == "failed to fetch the user list"
MsgNoTogglePermission == "no permission to change user status"
MsgUserNotFound == "user not found"
MsgOtherCompany == "users of another company cannot be changed"
MsgSelfToggle == "your own account cannot be disabled"
MsgToggleFailed == "failed to change user status"
MsgEnabled == "user enabled"
MsgDisabled == "user disabled"

\* the id the identity store gives to the credential of an email
UidOf(email) == CHOOSE u \in AllUids : EmailOf(u) = email

\* errors of a rejected remote call
RemoteErrors == {FsError, Err(None, None)}

\* a remote call resolved, or rejected with an error of the store
RemoteOutcomes == {[ok |-> TRUE, err |-> Nil]} \cup {[ok |-> FALSE, err |-> e] : e \in RemoteErrors}

\* the frame of a directly started Auth Action
ActionCall(op, pc, args, currentUser) ==
    [Call(op, pc, None, None) EXCEPT !.args = args, !.currentUser = currentUser]

\* what ret holds of a call that hands outcome to its caller: before is the
\* directory as the returning step found it
Handed(f, outcome) ==
    [f EXCEPT !.pc = "done", !.inner = outcome, !.result = outcome.env, !.before = directory]

\* an Auth Action starts: it runs up to its first await, or to its return when
\* a check before the first await throws (denied: the catch's outcome, else Nil)
ActionBegins(f, denied) ==
    /\ MayStart
    /\ started' = started + 1
    /\ IF denied # Nil
       THEN /\ calls' = Append(calls, Finished(f.op))
            /\ ret' = Handed(f, denied)
       ELSE /\ calls' = Append(calls, f)
            /\ UNCHANGED ret

\* call i returns outcome; f is its frame
ActionReturns(i, f, outcome) ==
    /\ calls' = [calls EXCEPT ![i] = Finished(f.op)]
    /\ ret' = Handed(f, outcome)

\* call i goes on to its next await
ActionContinues(i, f) ==
    /\ calls' = [calls EXCEPT ![i] = f]
    /\ UNCHANGED ret

(* createUser *)

CreateUserCatch(error) ==
    LET errorMessage ==
            CASE error.code = "auth/email-already-in-use" -> MsgEmailInUse
              [] error.code = "auth/weak-password" -> MsgWeakPassword
              [] error.code = "auth/invalid-email" -> MsgInvalidEmail
              [] OTHER -> OrElse(error.message, MsgUserCreateFailed)
    IN  Returned(Failure(OrElse(error.code, "user-creation-failed"), errorMessage))

\* createUserWithEmailAndPassword: what the identity store answers when reached
CreateCredentialError(userData) ==
    IF UidOf(userData.email) \in accounts THEN Err("auth/email-already-in-use", "in use")
    ELSE IF userData.password = "short" THEN Err("auth/weak-password", "weak")
    ELSE Nil

\* the mutant lets every acting user create users
CreateUserDeniedAnyRoleMutant(currentUser) == FALSE

\* the administrator check: currentUser.role !== 'admin'
CreateUserDenied(currentUser) == currentUser.role # "admin"

\* the mutant takes every tenant id for an existing tenant
CreateUserCompanyExistsAlwaysMutant(company_id) == TRUE

\* companyDoc.exists()
CreateUserCompanyExists(company_id) == companies[company_id] # Nil

\* the mutant writes the new record as inactive
CreateUserNewUserInactiveMutant(uid, userData) ==
    User(uid, userData.email, userData.name, userData.company_id, userData.role, FALSE)

\* newUser: the Identity Record written and returned
CreateUserNewUser(uid, userData) ==
    User(uid, userData.email, userData.name, userData.company_id, userData.role, TRUE)

\* createUser(userData, currentUser) up to its await getDoc, or to its return
\* when the administrator check throws
CreateUser(userData, currentUser) ==
    /\ ActionBegins(ActionCall("createUser", "getDoc", userData, currentUser),
                    IF CreateUserDenied(currentUser)
                    THEN CreateUserCatch(Err(None, MsgNoCreatePermission))
                    ELSE Nil)
    /\ UNCHANGED <<directory, accounts, remoteSession, delivered, handlers, cbLog, ctx,
                   userWriter, budget, companies, promptTemplates, subscribed, form>>

\* await getDoc(doc(db, 'companies', company_id)) returns
CreateUserGetDoc(i, read) ==
    /\ calls[i].op = "createUser" /\ calls[i].pc = "getDoc"
    /\ LET f == Settled(calls[i], "getDoc", read.ok) IN
       IF ~read.ok
       THEN ActionReturns(i, f, CreateUserCatch(read.err))
       ELSE IF ~CreateUserCompanyExists(f.args.company_id)
       THEN ActionReturns(i, f, CreateUserCatch(Err(None, MsgCompanyMissing)))
       ELSE ActionContinues(i, [f EXCEPT !.pc = "createUser"])
    /\ UNCHANGED <<directory, accounts, remoteSession, delivered, handlers, cbLog, ctx,
                   userWriter, started, budget, companies, promptTemplates, subscribed, form>>

\* await createUserWithEmailAndPassword returns: the identity store holds the
\* new credential and has signed it in
CreateUserCreateCredential(i, r) ==
    /\ calls[i].op = "createUser" /\ calls[i].pc = "createUser"
    /\ LET refused == CreateCredentialError(calls[i].args)
           f == Settled(calls[i], "createUser", r.ok /\ refused = Nil)
           uid == UidOf(calls[i].args.email)
       IN  IF ~r.ok \/ refused # Nil
           THEN /\ ActionReturns(i, f, CreateUserCatch(IF ~r.ok THEN r.err ELSE refused))
                /\ Becomes(Cur)
                /\ UNCHANGED accounts
           ELSE /\ CanBecome(Cur, uid)
                /\ accounts' = accounts \cup {uid}
                /\ Becomes(SessionBecomes(Cur, uid))
                /\ ActionContinues(i, [f EXCEPT !.pc = "updateProfile", !.uid = uid,
                                                !.created = {uid}])
    /\ UNCHANGED <<directory, started, budget, companies, promptTemplates, subscribed, form>>

\* await updateProfile(userCredential.user, {displayName}) returns
CreateUserUpdateProfile(i, r) ==
    /\ calls[i].op = "createUser" /\ calls[i].pc = "updateProfile"
    /\ LET f == Settled(calls[i], "updateProfile", r.ok) IN
       IF ~r.ok
       THEN ActionReturns(i, f, CreateUserCatch(r.err))
       ELSE ActionContinues(i, [f EXCEPT !.pc = "setDoc"])
    /\ UNCHANGED <<directory, accounts, remoteSession, delivered, handlers, cbLog, ctx,
                   userWriter, started, budget, companies, promptTemplates, subscribed, form>>

\* await setDoc(doc(db, 'users', uid), newUser) returns; createUser returns
CreateUserSetDoc(i, write) ==
    /\ calls[i].op = "createUser" /\ calls[i].pc = "setDoc"
    /\ LET f == Settled(calls[i], "setDoc", write.ok)
           newUser == CreateUserNewUser(f.uid, f.args)
       IN  IF ~write.ok
           THEN /\ ActionReturns(i, f, CreateUserCatch(write.err))
                /\ UNCHANGED directory
           ELSE /\ directory' = [directory EXCEPT ![f.uid] = newUser]
                /\ ActionReturns(i, [f EXCEPT !.writes = Append(@, newUser)],
                                 Returned(Success(newUser, MsgUserCreated)))
    /\ UNCHANGED <<accounts, remoteSession, delivered, handlers, cbLog, ctx,
                   userWriter, started, budget, companies, promptTemplates, subscribed, form>>

(* getCompanyUsers *)

GetCompanyUsersCatch(error) ==
    Returned(Failure("users-fetch-failed", OrElse(error.message, MsgUsersFetchFailed)))

\* the mutant lets every acting user list every tenant
GetCompanyUsersDeniedNoCheckMutant(companyId, currentUser) == FALSE

\* the tenant check: currentUser.company_id !== companyId
GetCompanyUsersDenied(companyId, currentUser) == currentUser.company_id # companyId

\* getCompanyUsers(companyId, currentUser) up to its await getDocs, or to its
\* return when the tenant check throws
GetCompanyUsers(companyId, currentUser) ==
    /\ ActionBegins(ActionCall("getCompanyUsers", "getDocs", [companyId |-> companyId],
                               currentUser),
                    IF GetCompanyUsersDenied(companyId, currentUser)
                    THEN GetCompanyUsersCatch(Err(None, MsgNoListPermission))
                    ELSE Nil)
    /\ UNCHANGED <<directory, accounts, remoteSession, delivered, handlers, cbLog, ctx,
                   userWriter, budget, companies, promptTemplates, subscribed, form>>

\* await getDocs(query(users, where company_id == companyId)) returns
GetCompanyUsersGetDocs(i, read) ==
    /\ calls[i].op = "getCompanyUsers" /\ calls[i].pc = "getDocs"
    /\ LET f == Settled(calls[i], "getDocs", read.ok)
           users == {directory[u] : u \in {v \in AllUids :
                        directory[v] # Nil /\ directory[v].company_id = f.args.companyId}}
       IN  IF ~read.ok
           THEN ActionReturns(i, f, GetCompanyUsersCatch(read.err))
           ELSE ActionReturns(i, f, Returned(Success([users |-> users], None)))
    /\ UNCHANGED <<directory, accounts, remoteSession, delivered, handlers, cbLog, ctx,
                   userWriter, started, budget, companies, promptTemplates, subscribed, form>>

(* toggleUserStatus *)

ToggleUserStatusCatch(error) ==
    Returned(Failure("status-toggle-failed", OrElse(error.message, MsgToggleFailed)))

\* the mutant forgets the tenant check
ToggleOtherCompanySkipMutant(userData, currentUser) == FALSE

\* userData.company_id !== currentUser.company_id
ToggleOtherCompany(userData, currentUser) == userData.company_id # currentUser.company_id

\* the mutant forbids only the deactivation of one's own account
ToggleSelfOnlyDeactivationMutant(userId, isActive, currentUser) ==
    userId = currentUser.id /\ ~isActive

\* userId === currentUser.id
ToggleSelf(userId, isActive, currentUser) == userId = currentUser.id

\* toggleUserStatus(userId, isActive, currentUser) up to its await getDoc, or
\* to its return when the administrator check throws
ToggleUserStatus(userId, isActive, currentUser) ==
    /\ ActionBegins(ActionCall("toggleUserStatus", "getDoc",
                               [userId |-> userId, isActive |-> isActive], currentUser),
                    IF currentUser.role # "admin"
                    THEN ToggleUserStatusCatch(Err(None, MsgNoTogglePermission))
                    ELSE Nil)
    /\ UNCHANGED <<directory, accounts, remoteSession, delivered, handlers, cbLog, ctx,
                   userWriter, budget, companies, promptTemplates, subscribed, form>>

\* await getDoc(doc(db, 'users', userId)) returns; then the checks on the record
ToggleGetDoc(i, read) ==
    /\ calls[i].op = "toggleUserStatus" /\ calls[i].pc = "getDoc"
    /\ LET f == Settled(calls[i], "getDoc", read.ok)
           userDoc == directory[f.args.userId]
       IN  IF ~read.ok
           THEN ActionReturns(i, f, ToggleUserStatusCatch(read.err))
           ELSE IF userDoc = Nil
           THEN ActionReturns(i, f, ToggleUserStatusCatch(Err(None, MsgUserNotFound)))
           ELSE IF ToggleOtherCompany(userDoc, f.currentUser)
           THEN ActionReturns(i, [f EXCEPT !.userData = userDoc],
                              ToggleUserStatusCatch(Err(None, MsgOtherCompany)))
           ELSE IF ToggleSelf(f.args.userId, f.args.isActive, f.currentUser)
           THEN ActionReturns(i, [f EXCEPT !.userData = userDoc],
                              ToggleUserStatusCatch(Err(None, MsgSelfToggle)))
           ELSE ActionContinues(i, [f EXCEPT !.pc = "updateDoc", !.userData = userDoc])
    /\ UNCHANGED <<directory, accounts, remoteSession, delivered, handlers, cbLog, ctx,
                   userWriter, started, budget, companies, promptTemplates, subscribed, form>>

\* await updateDoc(doc(db, 'users', userId), {is_active, updated_at}) returns;
\* toggleUserStatus returns
ToggleUpdateDoc(i, write) ==
    /\ calls[i].op = "toggleUserStatus" /\ calls[i].pc = "updateDoc"
    /\ LET f == Settled(calls[i], "updateDoc", write.ok)
           updated == [directory[f.args.userId] EXCEPT !.is_active = f.args.isActive,
                                                       !.updated_at = @ + 1]
       IN  IF ~write.ok
           THEN /\ ActionReturns(i, f, ToggleUserStatusCatch(write.err))
                /\ UNCHANGED directory
           ELSE /\ directory' = [directory EXCEPT ![f.args.userId] = updated]
                /\ ActionReturns(i, [f EXCEPT !.writes = Append(@, updated)],
                                 Returned(Success(Nil, IF f.args.isActive THEN MsgEnabled
                                                       ELSE MsgDisabled)))
    /\ UNCHANGED <<accounts, remoteSession, delivered, handlers, cbLog, ctx,
                   userWriter, started, budget, companies, promptTemplates, subscribed, form>>

(* getCompanyData, called directly *)

\* getCompanyData(companyId) up to its await getDoc
GetCompanyDataBegins(companyId) ==
    /\ ActionBegins(ActionCall("getCompanyData", "getDoc", [companyId |-> companyId], Nil),
                    Nil)
    /\ UNCHANGED <<directory, accounts, remoteSession, delivered, handlers, cbLog, ctx,
                   userWriter, budget, companies, promptTemplates, subscribed, form>>

\* await getDoc(doc(db, 'companies', companyId)) returns; getCompanyData returns
GetCompanyDataGetDoc(i, read) ==
    /\ calls[i].op = "getCompanyData" /\ calls[i].pc = "getDoc"
    /\ ActionReturns(i, Settled(calls[i], "getDoc", read.ok),
                     Returned(GetCompanyData(calls[i].args.companyId, read)))
    /\ UNCHANGED <<directory, accounts, remoteSession, delivered, handlers, cbLog, ctx,
                   userWriter, started, budget, companies, promptTemplates, subscribed, form>>

(* initializeTestData and safeInitializeTestData (utils/initTestData.ts) *)

\* the accounts initializeTestData creates: its administrator, its ordinary user
TestAccount(uid) ==
    [email |-> EmailOf(uid), password |-> PasswordOf(uid), name |-> NameOf(uid),
     company_id |-> TestCompanyId, role |-> IF uid = "testadmin" THEN "admin" ELSE "user"]

\* initializeTestData rethrows what it caught; safeInitializeTestData swallows
\* it and returns nothing
InitTestDataThrows(i, f, error) ==
    ActionReturns(i, [f EXCEPT !.caught = error],
                  IF f.args.safe THEN Returned(Nil) ELSE Raised(error))

\* initializeTestData() up to its first await
InitializeTestData ==
    /\ ActionBegins(ActionCall("initializeTestData", "setCompany", [safe |-> FALSE], Nil), Nil)
    /\ UNCHANGED <<directory, accounts, remoteSession, delivered, handlers, cbLog, ctx,
                   userWriter, budget, companies, promptTemplates, subscribed, form>>

\* safeInitializeTestData(): returns at once in production or when the user
\* declines; else it awaits initializeTestData()
SafeInitializeTestData(production, confirmed) ==
    /\ ActionBegins(ActionCall("initializeTestData", "setCompany", [safe |-> TRUE], Nil),
                    IF production \/ ~confirmed THEN Returned(Nil) ELSE Nil)
    /\ UNCHANGED <<directory, accounts, remoteSession, delivered, handlers, cbLog, ctx,
                   userWriter, budget, companies, promptTemplates, subscribed, form>>

\* await setDoc(doc(db, 'companies', companyId), companyData) returns
InitTestDataSetCompany(i, write) ==
    /\ calls[i].op = "initializeTestData" /\ calls[i].pc = "setCompany"
    /\ LET f == Settled(calls[i], "setDoc", write.ok) IN
       IF ~write.ok
       THEN /\ InitTestDataThrows(i, f, write.err)
            /\ UNCHANGED companies
       ELSE /\ companies' = [companies EXCEPT ![TestCompanyId] = TestCompany]
            /\ ActionContinues(i, [f EXCEPT !.pc = "setTemplate", !.writes = Append(@, TestCompany)])
    /\ UNCHANGED <<directory, accounts, remoteSession, delivered, handlers, cbLog, ctx,
                   userWriter, started, budget, promptTemplates, subscribed, form>>

\* await setDoc(doc(db, 'prompt_templates', templateId), templateData) returns,
\* for template k of the loop: the k-th await after the tenant's
InitTestDataSetTemplate(i, write) ==
    /\ calls[i].op = "initializeTestData" /\ calls[i].pc = "setTemplate"
    /\ LET k == Len(calls[i].trace)
           template == SystemPromptTemplates[k]
           f == Settled(calls[i], "setDoc", write.ok)
       IN  IF ~write.ok
           THEN /\ InitTestDataThrows(i, f, write.err)
                /\ UNCHANGED promptTemplates
           ELSE /\ promptTemplates' = [promptTemplates EXCEPT ![template.id] = template]
                /\ ActionContinues(i, [f EXCEPT
                       !.pc = IF k < Len(SystemPromptTemplates) THEN "setTemplate"
                              ELSE "createAdmin"])
    /\ UNCHANGED <<directory, accounts, remoteSession, delivered, handlers, cbLog, ctx,
                   userWriter, started, budget, companies, subscribed, form>>

\* await createUserWithEmailAndPassword returns, for the administrator
\* (pc createAdmin) or the ordinary user (pc createUser)
InitTestDataCreateCredential(i, r) ==
    /\ calls[i].op = "initializeTestData" /\ calls[i].pc \in {"createAdmin", "createUser"}
    /\ LET uid == IF calls[i].pc = "createAdmin" THEN "testadmin" ELSE "testuser"
           refused == CreateCredentialError(TestAccount(uid))
           f == Settled(calls[i], "createUser", r.ok /\ refused = Nil)
       IN  IF ~r.ok \/ refused # Nil
           THEN /\ InitTestDataThrows(i, f, IF ~r.ok THEN r.err ELSE refused)
                /\ Becomes(Cur)
                /\ UNCHANGED accounts
           ELSE /\ CanBecome(Cur, uid)
                /\ accounts' = accounts \cup {uid}
                /\ Becomes(SessionBecomes(Cur, uid))
                /\ ActionContinues(i, [f EXCEPT !.pc = "updateProfile", !.uid = uid,
                                                !.created = @ \cup {uid}])
    /\ UNCHANGED <<directory, started, budget, companies, promptTemplates, subscribed, form>>

\* await updateProfile(credential.user, {displayName}) returns
InitTestDataUpdateProfile(i, r) ==
    /\ calls[i].op = "initializeTestData" /\ calls[i].pc = "updateProfile"
    /\ LET f == Settled(calls[i], "updateProfile", r.ok) IN
       IF ~r.ok
       THEN InitTestDataThrows(i, f, r.err)
       ELSE ActionContinues(i, [f EXCEPT !.pc = "setDoc"])
    /\ UNCHANGED <<directory, accounts, remoteSession, delivered, handlers, cbLog, ctx,
                   userWriter, started, budget, companies, promptTemplates, subscribed, form>>

\* await setDoc(doc(db, 'users', uid), userData) returns; after the ordinary
\* user's, initializeTestData returns the three ids
InitTestDataSetDoc(i, write) ==
    /\ calls[i].op = "initializeTestData" /\ calls[i].pc = "setDoc"
    /\ LET f == Settled(calls[i], "setDoc", write.ok)
           userData == CreateUserNewUser(f.uid, TestAccount(f.uid))
           g == [f EXCEPT !.writes = Append(@, userData)]
       IN  IF ~write.ok
           THEN /\ InitTestDataThrows(i, f, write.err)
                /\ UNCHANGED directory
           ELSE /\ directory' = [directory EXCEPT ![f.uid] = userData]
                /\ IF f.uid = "testadmin"
                   THEN ActionContinues(i, [g EXCEPT !.pc = "createUser"])
                   ELSE ActionReturns(i, g,
                            IF f.args.safe THEN Returned(Nil)
                            ELSE Returned([companyId |-> TestCompanyId,
                                           adminUserId |-> "testadmin",
                                           normalUserId |-> "testuser"]))
    /\ UNCHANGED <<accounts, remoteSession, delivered, handlers, cbLog, ctx,
                   userWriter, started, budget, companies, promptTemplates, subscribed, form>>

(* inputs of the direct calls *)

\* ids the calls are made about
KnownUids == Principals \cup {"new1"}

\* acting users: session users built from the Identity Records of the directory
Actors == {AuthUser(directory[u], "token-actor") : u \in {v \in KnownUids : directory[v] # Nil}}

NewUsers ==
    [email : {EmailOf("new1"), EmailOf("inact1")}, password : {"pw-new1", "short"},
     name : {NameOf("new1")}, company_id : {"t1", "t3"}, role : {"user"}]

-----------------------------------------------------------------------------
Start(n, attached) ==
    /\ budget = n
    /\ subscribed = attached
    /\ directory = InitDirectory
    /\ accounts = Principals
    /\ remoteSession = None
    /\ delivered = <<>>
    /\ handlers = <<>>
    /\ cbLog = <<>>
    /\ ctx = [user |-> Nil, company |-> Nil, loading |-> TRUE, error |-> None]
    /\ userWriter = 0
    /\ calls = <<>>
    /\ form = InitForm
    /\ companies = InitCompanies
    /\ promptTemplates = [t \in TemplateIds |-> Nil]
    /\ started = 0
    /\ ret = Call("none", "done", None, None)

Init == Start(MaxOps, TRUE)
InitActions == Start(MaxOpsActions, FALSE)
InitAll == Start(MaxOpsAll, TRUE)
InitLoginForm == Start(MaxOpsForm, TRUE)

\* the Session Watcher and the Session Context
NextSession ==
    \/ \E p \in Principals \cup {None} : BackendSessionChange(p)
    \/ \E h \in DOMAIN handlers, read \in ReadOutcomes : HandlerGetDoc(h, read)
    \/ \E h \in DOMAIN handlers, ok \in BOOLEAN : HandlerGetIdToken(h, ok)
    \/ \E h \in DOMAIN handlers, ok \in BOOLEAN : HandlerSignOut(h, ok)
    \/ \E h \in DOMAIN handlers : HandlerAfterSignOut(h)
    \/ \E h \in DOMAIN handlers, read \in ReadOutcomes : HandlerGetCompany(h, read)
    \/ \E in \in LoginInputs : Login(in.email, in.password)
    \/ \E i \in DOMAIN calls :
          \E r \in SignInOutcomes(calls[i].email, calls[i].password) : LoginSignIn(i, r)
    \/ \E i \in DOMAIN calls, read \in ReadOutcomes : LoginGetDoc(i, read)
    \/ \E i \in DOMAIN calls, r \in IdentityOutcomes : LoginSignOut(i, r)
    \/ \E i \in DOMAIN calls : LoginAfterSignOut(i)
    \/ \E i \in DOMAIN calls, write \in ReadOutcomes : LoginUpdateDoc(i, write)
    \/ \E i \in DOMAIN calls, r \in IdentityOutcomes : LoginGetIdToken(i, r)
    \/ Logout
    \/ \E i \in DOMAIN calls, ok \in BOOLEAN : LogoutSignOut(i, ok)
    \/ \E i \in DOMAIN calls : LogoutAfterSignOut(i)
    \/ \E email \in ResetEmails : SendPasswordReset(email)
    \/ \E i \in DOMAIN calls, r \in ResetOutcomes : ResetSendEmail(i, r)
    \/ ClearError

\* the Auth Actions called directly
NextActions ==
    \/ \E userData \in NewUsers, currentUser \in Actors : CreateUser(userData, currentUser)
    \/ \E i \in DOMAIN calls, read \in RemoteOutcomes : CreateUserGetDoc(i, read)
    \/ \E i \in DOMAIN calls, r \in RemoteOutcomes : CreateUserCreateCredential(i, r)
    \/ \E i \in DOMAIN calls, r \in RemoteOutcomes : CreateUserUpdateProfile(i, r)
    \/ \E i \in DOMAIN calls, write \in RemoteOutcomes : CreateUserSetDoc(i, write)
    \/ \E companyId \in Tenants, currentUser \in Actors :
          GetCompanyUsers(companyId, currentUser)
    \/ \E i \in DOMAIN calls, read \in RemoteOutcomes : GetCompanyUsersGetDocs(i, read)
    \/ \E userId \in KnownUids, isActive \in BOOLEAN, currentUser \in Actors :
          ToggleUserStatus(userId, isActive, currentUser)
    \/ \E i \in DOMAIN calls, read \in RemoteOutcomes : ToggleGetDoc(i, read)
    \/ \E i \in DOMAIN calls, write \in RemoteOutcomes : ToggleUpdateDoc(i, write)
    \/ \E companyId \in Tenants \cup {"t3"} : GetCompanyDataBegins(companyId)
    \/ \E i \in DOMAIN calls, read \in ReadOutcomes : GetCompanyDataGetDoc(i, read)

\* the Login Form Controller with the login it starts and the watcher
NextForm ==
    \/ \E value \in FormEmails : HandleChange("email", value)
    \/ \E value \in FormPasswords : HandleChange("password", value)
    \/ HandleSubmit
    \/ \E i \in DOMAIN calls : HandleSubmitAfterLogin(i)
    \/ \E i \in DOMAIN calls :
          \E r \in SignInOutcomes(calls[i].email, calls[i].password) : LoginSignIn(i, r)
    \/ \E i \in DOMAIN calls, read \in ReadOutcomes : LoginGetDoc(i, read)
    \/ \E i \in DOMAIN calls, r \in IdentityOutcomes : LoginSignOut(i, r)
    \/ \E i \in DOMAIN calls : LoginAfterSignOut(i)
    \/ \E i \in DOMAIN calls, write \in ReadOutcomes : LoginUpdateDoc(i, write)
    \/ \E i \in DOMAIN calls, r \in IdentityOutcomes : LoginGetIdToken(i, r)
    \/ \E h \in DOMAIN handlers, read \in ReadOutcomes : HandlerGetDoc(h, read)
    \/ \E h \in DOMAIN handlers, ok \in BOOLEAN : HandlerGetIdToken(h, ok)
    \/ \E h \in DOMAIN handlers, ok \in BOOLEAN : HandlerSignOut(h, ok)
    \/ \E h \in DOMAIN handlers : HandlerAfterSignOut(h)
    \/ \E h \in DOMAIN handlers, read \in ReadOutcomes : HandlerGetCompany(h, read)

Next == NextSession

\* the client as it runs: the watcher attached, the context's calls
Spec == Init /\ [][Next]_vars

\* the Auth Actions alone, called directly
SpecActions == InitActions /\ [][NextActions]_vars

\* the login form, the login it starts, the watcher
SpecForm == InitLoginForm /\ [][NextForm]_vars

\* both
SpecAll == InitAll /\ [][NextSession \/ NextActions]_vars

\* the unsubscribe handle onAuthStateChange returned is called (the cleanup of
\* AuthProvider's effect): the identity store stops notifying the listener
Unsubscribe ==
    /\ subscribed
    /\ subscribed' = FALSE
    /\ UNCHANGED <<directory, accounts, remoteSession, delivered, handlers, cbLog, ctx,
                   userWriter, calls, started, budget, companies, promptTemplates, form, ret>>

InitDetach == Start(MaxOpsDetach, TRUE)
InitTestData == Start(MaxOpsTestData, TRUE)

\* the Session Watcher, its handlers, and its detach
NextDetach ==
    \/ \E p \in Principals \cup {None} : BackendSessionChange(p)
    \/ \E h \in DOMAIN handlers, read \in ReadOutcomes : HandlerGetDoc(h, read)
    \/ \E h \in DOMAIN handlers, ok \in BOOLEAN : HandlerGetIdToken(h, ok)
    \/ \E h \in DOMAIN handlers, ok \in BOOLEAN : HandlerSignOut(h, ok)
    \/ \E h \in DOMAIN handlers : HandlerAfterSignOut(h)
    \/ \E h \in DOMAIN handlers, read \in ReadOutcomes : HandlerGetCompany(h, read)
    \/ Unsubscribe

\* the development helper that fills the stores, with the watcher attached
NextTestData ==
    \/ InitializeTestData
    \/ \E production, confirmed \in BOOLEAN : SafeInitializeTestData(production, confirmed)
    \/ \E i \in DOMAIN calls, write \in RemoteOutcomes : InitTestDataSetCompany(i, write)
    \/ \E i \in DOMAIN calls, write \in RemoteOutcomes : InitTestDataSetTemplate(i, write)
    \/ \E i \in DOMAIN calls, r \in RemoteOutcomes : InitTestDataCreateCredential(i, r)
    \/ \E i \in DOMAIN calls, r \in RemoteOutcomes : InitTestDataUpdateProfile(i, r)
    \/ \E i \in DOMAIN calls, write \in RemoteOutcomes : InitTestDataSetDoc(i, write)
    \/ \E h \in DOMAIN handlers, read \in ReadOutcomes : HandlerGetDoc(h, read)
    \/ \E h \in DOMAIN handlers, ok \in BOOLEAN : HandlerGetIdToken(h, ok)
    \/ \E h \in DOMAIN handlers, ok \in BOOLEAN : HandlerSignOut(h, ok)
    \/ \E h \in DOMAIN handlers : HandlerAfterSignOut(h)
    \/ \E h \in DOMAIN handlers, read \in ReadOutcomes : HandlerGetCompany(h, read)

\* initializeTestData as it runs in the mounted client
SpecTestData == InitTestData /\ [][NextTestData]_vars

\* the watcher from attach to detach and after
SpecDetach == InitDetach /\ [][NextDetach]_vars

-----------------------------------------------------------------------------
(* Properties *)

\* the principal a callback argument stands for
CbPrincipal(x) == IF x = Nil THEN None ELSE x.id

\* handler h has invoked the observer callback
Called(h) == handlers[h].pc \in {"getCompany", "done"}

\* C1: for the notification sequence [admin1, absent, admin1], once every handler
\* has invoked the callback (no remote call having failed), the callback was
\* invoked three times with [admin1, absent, admin1], in that order
C1_CallbackOrder ==
    ( /\ delivered = <<"admin1", None, "admin1">>
      /\ \A h \in DOMAIN handlers : Called(h) /\ ~handlers[h].failed )
    => /\ Len(cbLog) = 3
       /\ [k \in 1..3 |-> CbPrincipal(cbLog[k])] = <<"admin1", None, "admin1">>

\* C2: the handling of a notification does not start before the handling of
\* the one before it has finished: only the latest handler is ever unfinished
C2_NoOverlap ==
    \A h \in DOMAIN handlers : h < Len(handlers) => handlers[h].pc = "done"

\* the tenant fetch of the session that set ctx.user has succeeded
SessionTenantLoaded ==
    /\ userWriter \in DOMAIN handlers
    /\ handlers[userWriter].companyResult # Nil
    /\ handlers[userWriter].companyResult.success

\* C3: company is present if and only if user is present and the tenant fetch
\* for that session succeeded; company is never present while user is absent
C3_CompanyIffSessionTenant ==
    /\ ctx.company # Nil <=> (ctx.user # Nil /\ SessionTenantLoaded)
    /\ ctx.user = Nil => ctx.company = Nil

\* handler h finishes in this step with a failed tenant fetch
TenantFetchFails(h) ==
    /\ h \in DOMAIN handlers
    /\ handlers[h].pc = "getCompany"
    /\ handlers'[h].pc = "done"
    /\ ~handlers'[h].companyResult.success

\* C4: when the tenant fetch for a delivered session user fails, the step
\* leaves user as it is (the user this handler set, unless another writer
\* replaced it meanwhile), sets a non-absent error and leaves loading false
C4_TenantFailureKeepsUser ==
    [][\A h \in DOMAIN handlers :
          TenantFetchFails(h) =>
            /\ ctx'.user = ctx.user
            /\ userWriter = h => ctx'.user = handlers[h].authUser
            /\ ctx'.error # None
            /\ ctx'.loading = FALSE]_vars

C4_Witness ==
    \E h \in DOMAIN handlers :
        /\ handlers[h].pc = "done"
        /\ handlers[h].companyResult # Nil
        /\ ~handlers[h].companyResult.success
        /\ ctx.user = handlers[h].authUser
        /\ ctx.error = MsgCompanyFetchFailed
        /\ ~ctx.loading

\* the envelope invariant of ApiResponse
EnvelopeOk(e) ==
    /\ e.success => e.error = Nil
    /\ ~e.success => (e.data = Nil /\ e.error # Nil)

\* an Auth Action (or a wrapper around one) has returned: ret holds its outcome
HasReturned(op) == ret.op = op /\ ret.inner # Nil

\* C5: every envelope an Auth Action or a Session Context wrapper returned has
\* no error when success is true, and no data but an error when it is false
C5_EnvelopeInvariant ==
    /\ ret.inner # Nil =>
         /\ ~ret.inner.raised => EnvelopeOk(ret.inner.env)
         /\ ret.result # Nil => EnvelopeOk(ret.result)
    /\ \A h \in DOMAIN handlers :
         handlers[h].companyResult # Nil => EnvelopeOk(handlers[h].companyResult)

C5_Witness ==
    /\ HasReturned("toggleUserStatus")
    /\ ~ret.result.success
    /\ ret.result.data = Nil
    /\ ret.result.error.code = "status-toggle-failed"

\* C6: no Auth Action raises; when one of its remote calls failed it returns
\* an envelope with success = false
C6_NoRaise ==
    ret.inner # Nil =>
        /\ ~ret.inner.raised
        /\ ret.failedCall => ~ret.inner.env.success

C6_Witness ==
    /\ HasReturned("login")
    /\ ret.trace = <<"signIn", "getDoc", "updateDoc", "getIdToken">>
    /\ ret.failedCall
    /\ ~ret.inner.raised
    /\ ~ret.result.success

\* loginUser signed in, read an active Identity Record, and none of its remote
\* calls failed
LoginAccepted ==
    /\ HasReturned("login")
    /\ ret.uid # None
    /\ ret.userData # Nil
    /\ ret.userData.is_active
    /\ ~ret.failedCall

\* C7: loginUser with accepted credentials and an active Identity Record
\* returns success with a session user whose email, name and role are the
\* stored record's and whose token is the one just issued
C7_LoginSuccess ==
    LoginAccepted =>
        /\ ret.result.success
        /\ ret.result.data.email = directory[ret.uid].email
        /\ ret.result.data.name = directory[ret.uid].name
        /\ ret.result.data.role = directory[ret.uid].role
        /\ ret.token # None
        /\ ret.result.data.token = ret.token

C7_Witness ==
    /\ LoginAccepted
    /\ ret.uid = "admin1"
    /\ ret.result.success
    /\ ret.result.data.role = "admin"

\* loginUser read an Identity Record whose is_active is false
LoginInactive ==
    /\ HasReturned("login")
    /\ ret.userData # Nil
    /\ ~ret.userData.is_active

\* C8: loginUser against an inactive Identity Record returns success = false
\* after the sign-out was issued and settled, and writes no last-login stamp
C8_InactiveRevokedFirst ==
    LoginInactive =>
        /\ ~ret.result.success
        /\ ret.trace = <<"signIn", "getDoc", "signOut">>
        /\ ~ret.stamped
        /\ directory[ret.uid].last_login = ret.userData.last_login

C8_Witness ==
    /\ LoginInactive
    /\ ret.trace = <<"signIn", "getDoc", "signOut">>
    /\ ~ret.failedCall
    /\ remoteSession = None
    /\ ~ret.result.success

\* C9: the failure envelope of loginUser for an inactive Identity Record
\* carries the error code account-inactive
C9_InactiveCode ==
    LoginInactive => ret.result.error.code = "account-inactive"

\* C10: when sign-in succeeded, the record is active and only the last-login
\* write failed, loginUser still returns success = true
C10_StampBestEffort ==
    ( /\ HasReturned("login")
      /\ ret.userData # Nil
      /\ ret.userData.is_active
      /\ ret.trace = <<"signIn", "getDoc", "updateDoc">>
      /\ ret.failedCall )
    => ret.result.success

-----------------------------------------------------------------------------
(* Properties of the Auth Actions called directly: each is about the step  *)
(* in which the call returns. ret.before is the directory as that step     *)
(* found it; ret.created and ret.writes are what the call's earlier steps  *)
(* and this one created and wrote.                                         *)

\* a call of op returns in this step: ret' holds what it hands back
Returns(op) ==
    /\ ret'.op = op
    /\ \E i \in DOMAIN calls' :
          /\ calls'[i].op = op
          /\ calls'[i].pc = "done"
          /\ i \notin DOMAIN calls \/ calls[i].pc # "done"

\* the call created no credential and wrote no record, and the directory is
\* as its last step found it
StoresUnchanged == ret.created = {} /\ ret.writes = <<>> /\ directory = ret.before

\* C11: createUser by an acting user who is not an administrator returns
\* success = false with the authorization-denial message, makes no remote call
\* at all, and leaves the directory and the identity store unchanged
C11_NonAdminCreateDenied ==
    [][Returns("createUser") =>
        (ret.currentUser.role # "admin" =>
            /\ ~ret.result.success
            /\ ret.result.error.message = MsgNoCreatePermission
            /\ ret.trace = <<>>
            /\ StoresUnchanged)']_vars

C11_Witness ==
    /\ HasReturned("createUser")
    /\ ret.currentUser.role = "user"
    /\ ret.args.company_id = "t1"
    /\ ret.args.email = EmailOf("new1")
    /\ ~ret.result.success
    /\ ret.trace = <<>>

\* C12: createUser by an administrator for a tenant id without Tenant Record
\* returns success = false and creates neither a credential nor an Identity
\* Record; when the tenant read itself succeeded, the error is the
\* tenant-not-found error and the tenant read is the only remote call
C12_MissingTenantDenied ==
    [][Returns("createUser") =>
        ((ret.currentUser.role = "admin" /\ companies[ret.args.company_id] = Nil) =>
            /\ ~ret.result.success
            /\ StoresUnchanged
            /\ ~ret.failedCall =>
                  /\ ret.result.error.message = MsgCompanyMissing
                  /\ ret.trace = <<"getDoc">>)']_vars

C12_Witness ==
    /\ HasReturned("createUser")
    /\ ret.currentUser.id = "admin1"
    /\ ret.args.company_id = "t3"
    /\ ~ret.failedCall
    /\ ret.result.error.message = MsgCompanyMissing
    /\ "new1" \notin accounts

\* createUser by an administrator, for an existing tenant, no remote call failing
CreateUserAllSucceed ==
    /\ HasReturned("createUser")
    /\ ret.currentUser.role = "admin"
    /\ companies[ret.args.company_id] # Nil
    /\ ~ret.failedCall

\* C13: createUser by an administrator for an existing tenant, every remote
\* call succeeding, creates the credential, updates the display name and writes
\* the Identity Record, in that order; the record written and returned has the
\* new credential's id, the supplied email, name, company_id and role, and
\* is_active = true
C13_CreateUserSuccess ==
    [][Returns("createUser") =>
        (CreateUserAllSucceed =>
            /\ ret.result.success
            /\ ret.trace = <<"getDoc", "createUser", "updateProfile", "setDoc">>
            /\ ret.created = {ret.result.data.id}
            /\ ret.result.data.id \in accounts
            /\ ret.before[ret.result.data.id] = Nil
            /\ ret.writes = <<ret.result.data>>
            /\ directory[ret.result.data.id] = ret.result.data
            /\ ret.result.data.email = ret.args.email
            /\ ret.result.data.name = ret.args.name
            /\ ret.result.data.company_id = ret.args.company_id
            /\ ret.result.data.role = ret.args.role
            /\ ret.result.data.is_active)']_vars

C13_Witness ==
    /\ CreateUserAllSucceed
    /\ ret.currentUser.id = "admin1"
    /\ ret.result.success
    /\ directory["new1"] # Nil
    /\ directory["new1"].is_active
    /\ directory["new1"].company_id = "t1"
    /\ "new1" \in accounts

\* C14: toggleUserStatus on the acting user's own id returns success = false
\* and writes nothing, whatever the actor's role and tenant and the flag asked
C14_SelfToggleDenied ==
    [][Returns("toggleUserStatus") =>
        (ret.args.userId = ret.currentUser.id =>
            /\ ~ret.result.success
            /\ StoresUnchanged)']_vars

C14_Witness ==
    /\ HasReturned("toggleUserStatus")
    /\ ret.currentUser.id = "admin1"
    /\ ret.args.userId = "admin1"
    /\ ret.args.isActive
    /\ ret.trace = <<"getDoc">>
    /\ ~ret.failedCall
    /\ ret.result.error.message = MsgSelfToggle

\* the authorization preconditions of the toggleUserStatus call in ret
TogglePermitted ==
    /\ ret.currentUser.role = "admin"
    /\ ret.before[ret.args.userId] # Nil
    /\ ret.before[ret.args.userId].company_id = ret.currentUser.company_id
    /\ ret.args.userId # ret.currentUser.id

\* C15: after every toggleUserStatus call of any sequence: the directory
\* changed only if the actor is an administrator, the target exists in the
\* actor's tenant and is not the actor, and then only the target's record
\* changed; every other call returned success = false and left every Identity
\* Record unchanged; no record of another tenant changed
C15_ToggleAuthorized ==
    [][Returns("toggleUserStatus") =>
        ( /\ (directory # ret.before \/ ret.writes # <<>>) =>
                /\ TogglePermitted
                /\ directory[ret.args.userId].is_active = ret.args.isActive
                /\ ret.writes = <<directory[ret.args.userId]>>
                /\ \A u \in AllUids : u # ret.args.userId => directory[u] = ret.before[u]
          /\ ~TogglePermitted =>
                (~ret.result.success /\ directory = ret.before /\ ret.writes = <<>>)
          /\ ret.result.success => directory # ret.before
          /\ \A u \in AllUids :
                (ret.before[u] # Nil /\ ret.before[u].company_id # ret.currentUser.company_id)
                    => directory[u] = ret.before[u] )']_vars

C15_Witness ==
    /\ HasReturned("toggleUserStatus")
    /\ ret.currentUser.id = "admin1"
    /\ ret.args.userId = "inact1"
    /\ ret.args.isActive
    /\ ret.result.success
    /\ ~ret.before["inact1"].is_active
    /\ directory["inact1"].is_active

\* C16: getCompanyUsers for a tenant other than the acting user's returns
\* success = false without querying the directory; for the acting user's own
\* tenant, the query succeeding, it returns exactly the Identity Records of
\* that tenant
C16_CompanyUsersOwnTenantOnly ==
    [][Returns("getCompanyUsers") =>
        ( /\ ret.currentUser.company_id # ret.args.companyId =>
                (~ret.result.success /\ ret.trace = <<>>)
          /\ (ret.currentUser.company_id = ret.args.companyId /\ ~ret.failedCall) =>
                /\ ret.result.success
                /\ ret.trace = <<"getDocs">>
                /\ \A r \in ret.result.data.users :
                      /\ r.company_id = ret.args.companyId
                      /\ directory[r.id] = r
                /\ \A u \in AllUids :
                      (directory[u] # Nil /\ directory[u].company_id = ret.args.companyId)
                          => directory[u] \in ret.result.data.users )']_vars

C16_Witness ==
    /\ HasReturned("getCompanyUsers")
    /\ ret.currentUser.id = "admin1"
    /\ ret.args.companyId = "t1"
    /\ ret.result.success
    /\ {r.id : r \in ret.result.data.users} = {"admin1", "inact1", "new1"}

\* the call in ret failed on an authorization precondition
AuthorizationDenied ==
    \/ /\ HasReturned("createUser")
       /\ ret.currentUser.role # "admin"
    \/ /\ HasReturned("getCompanyUsers")
       /\ ret.currentUser.company_id # ret.args.companyId
    \/ /\ HasReturned("toggleUserStatus")
       /\ ret.currentUser.role # "admin"
    \/ /\ HasReturned("toggleUserStatus")
       /\ ret.currentUser.role = "admin"
       /\ ~ret.failedCall
       /\ ret.before[ret.args.userId] # Nil
       /\ \/ ret.before[ret.args.userId].company_id # ret.currentUser.company_id
          \/ ret.args.userId = ret.currentUser.id

\* C17: an Auth Action that fails on an authorization precondition returns the
\* error code forbidden
C17_ForbiddenCode ==
    AuthorizationDenied =>
        (~ret.result.success /\ ret.result.error.code = "forbidden")

-----------------------------------------------------------------------------
(* Properties of logoutUser and of the Session Watcher's failure paths *)

\* C18: logoutUser issues the session revocation on every call, with or
\* without a session; it returns success = true if the revocation succeeded,
\* and success = false with the logout-failed error exactly if it failed
C18_LogoutUser ==
    HasReturned("logout") =>
        /\ ret.trace = <<"signOut">>
        /\ ~ret.inner.raised
        /\ ret.inner.env.success <=> ~ret.failedCall
        /\ ~ret.inner.env.success =>
              /\ ret.inner.env.error.code = "logout-failed"
              /\ ret.inner.env.error.message = MsgLogoutFailed

\* logoutUser failed at a time no session had ever existed
C18_Witness ==
    /\ HasReturned("logout")
    /\ delivered = <<>>
    /\ remoteSession = None
    /\ ret.trace = <<"signOut">>
    /\ ret.failedCall
    /\ ret.inner.env.error.code = "logout-failed"

\* s is an initial part of t
IsPrefix(s, t) == Len(s) <= Len(t) /\ \A k \in DOMAIN s : s[k] = t[k]

\* callbacks handler h has invoked
CallbacksOf(h) ==
    {k \in DOMAIN handlers[h].trace :
        handlers[h].trace[k] \in {"callback(null)", "callback(authUser)"}}

\* C19: the handler of a notification whose principal has no Identity Record
\* revokes the remote session and then invokes the observer once, with absent;
\* it never invokes the observer with a session user
C19_OrphanRevoked ==
    \A h \in DOMAIN handlers :
        handlers[h].found = "no" =>
            /\ IsPrefix(handlers[h].trace, <<"getDoc", "signOut", "callback(null)">>)
            /\ handlers[h].pc = "done" =>
                  handlers[h].trace = <<"getDoc", "signOut", "callback(null)">>

C19_Witness ==
    \E h \in DOMAIN handlers :
        /\ handlers[h].arg = "orphan"
        /\ handlers[h].found = "no"
        /\ handlers[h].pc = "done"
        /\ ~handlers[h].failed
        /\ handlers[h].trace = <<"getDoc", "signOut", "callback(null)">>
        /\ remoteSession = None

\* C20: a handler whose directory read, token fetch or orphan revocation
\* failed does not raise: it has finished by invoking the observer once, with
\* absent
C20_HandlerFailureIsAbsent ==
    \A h \in DOMAIN handlers :
        handlers[h].failed =>
            /\ ~handlers[h].raised
            /\ handlers[h].pc = "done"
            /\ Cardinality(CallbacksOf(h)) = 1
            /\ handlers[h].trace[Len(handlers[h].trace)] = "callback(null)"

\* three handlers failed: at the read, at the token fetch, at the revocation
C20_Witness ==
    \E h1, h2, h3 \in DOMAIN handlers :
        /\ handlers[h1].failed /\ handlers[h2].failed /\ handlers[h3].failed
        /\ handlers[h1].trace = <<"getDoc", "callback(null)">>
        /\ handlers[h2].trace = <<"getDoc", "getIdToken", "callback(null)">>
        /\ handlers[h3].trace = <<"getDoc", "signOut", "callback(null)">>

-----------------------------------------------------------------------------
(* Properties of the Authorization Gate and of the Login Form Controller *)

\* C21: RequireAuth decides by strict priority: the loading placeholder while
\* loading; else the fallback when no user is present; else the
\* insufficient-role message when requireAdmin is set and the user is not an
\* administrator; else the content. The content is admitted exactly when
\* loading is false, a user is present and requireAdmin implies role admin
C21_GatePriority ==
    \A requireAdmin \in BOOLEAN :
        LET outcome == RequireAuth(ctx, requireAdmin) IN
        /\ ctx.loading => outcome = "loading"
        /\ (~ctx.loading /\ ctx.user = Nil) => outcome = "fallback"
        /\ (~ctx.loading /\ ctx.user # Nil /\ requireAdmin /\ ctx.user.role # "admin")
              => outcome = "adminRequired"
        /\ outcome = "children" <=>
              /\ ~ctx.loading
              /\ ctx.user # Nil
              /\ requireAdmin => ctx.user.role = "admin"

C21_Witness ==
    /\ ~ctx.loading
    /\ ctx.user # Nil
    /\ ctx.user.role = "user"
    /\ RequireAuth(ctx, TRUE) = "adminRequired"
    /\ RequireAuth(ctx, FALSE) = "children"

\* the field values fail validateForm's rules
EmailInvalid(values) == values.email = <<>> \/ ~MatchesEmailPattern(values.email)
PasswordInvalid(values) == values.password = "" \/ Len(values.password) < 6

\* C22: a handleSubmit with an empty or ill-formed email, or an empty or
\* shorter-than-6 password, sets a field error on each failing field (and on
\* no other) and does not invoke login; with both fields valid it invokes
\* login once, with the current field values
C22_SubmitValidates ==
    [][HandleSubmit =>
         /\ EmailInvalid(form.values) <=> form'.errors.email # None
         /\ PasswordInvalid(form.values) <=> form'.errors.password # None
         /\ (EmailInvalid(form.values) \/ PasswordInvalid(form.values)) =>
               (calls' = calls /\ started' = started)
         /\ ~(EmailInvalid(form.values) \/ PasswordInvalid(form.values)) =>
               /\ Len(calls') = Len(calls) + 1
               /\ SubSeq(calls', 1, Len(calls)) = calls
               /\ calls'[Len(calls')].op = "login"
               /\ calls'[Len(calls')].pc = "signIn"
               /\ calls'[Len(calls')].email = Text(form.values.email)
               /\ calls'[Len(calls')].password = form.values.password]_vars

\* "a@b.com" with the 5-character password was submitted: a field error on
\* password only, and no login
C22_Witness ==
    /\ form.values.email = <<"a", "@", "b", ".", "c", "o", "m">>
    /\ form.values.password = "12345"
    /\ form.errors.email = None
    /\ form.errors.password = MsgPasswordShort
    /\ calls = <<>>

\* a login started by handleSubmit has not returned yet
SubmitInFlight ==
    \E i \in DOMAIN calls :
        calls[i].op = "login" /\ calls[i].submit /\ calls[i].pc # "done"

\* C23: isSubmitting is true exactly while a login started by handleSubmit is
\* in flight, also when handleSubmit is invoked again before an earlier
\* invocation has finished
C23_SubmittingIffInFlight == form.isSubmitting <=> SubmitInFlight

\* login returns in this step to the handleSubmit that called it
SubmitLoginReturns(i) ==
    /\ calls[i].op = "login"
    /\ calls[i].submit
    /\ calls[i].pc \notin {"afterLogin", "done"}
    /\ calls'[i].pc = "afterLogin"

\* the handleSubmit that made call i continues after its await and returns
HandleSubmitReturns(i) == calls[i].pc = "afterLogin" /\ calls'[i].pc = "done"

\* the success callback is invoked once by a handleSubmit that got a success
\* envelope from login, and by nothing else
SuccessCallbackOnce ==
    /\ \A i \in DOMAIN calls :
          HandleSubmitReturns(i) =>
              form'.successCalls =
                  form.successCalls + (IF calls[i].result.success THEN 1 ELSE 0)
    /\ form'.successCalls # form.successCalls =>
          \E i \in DOMAIN calls : HandleSubmitReturns(i)

\* C24 as stated: for a submission that passes validation, the success
\* callback is invoked exactly once if the login envelope has success = true
\* and not at all otherwise; on a failure envelope the Session Context error is
\* the envelope's message when handleSubmit returns
C24_SuccessCallback ==
    [][ /\ SuccessCallbackOnce
        /\ \A i \in DOMAIN calls :
              (HandleSubmitReturns(i) /\ ~calls[i].result.success) =>
                  ctx'.error = calls[i].result.error.message ]_vars

\* C24, amended: the success callback is invoked exactly once if the login
\* envelope has success = true and not at all otherwise; on a failure envelope
\* login has set the Session Context error to the envelope's message in the
\* step in which it returns, which is before handleSubmit continues; a
\* handler's failed tenant fetch may replace the error before handleSubmit
\* returns
C24_LoginSetsErrorOnReturn ==
    [][ /\ SuccessCallbackOnce
        /\ \A i \in DOMAIN calls :
              SubmitLoginReturns(i) =>
                  /\ calls'[i].result = ret'.result
                  /\ ~calls'[i].result.success =>
                        ctx'.error = calls'[i].result.error.message
        /\ \A i \in DOMAIN calls :
              HandleSubmitReturns(i) =>
                  /\ calls[i].submit
                  /\ calls[i].result # Nil
                  /\ ~form'.isSubmitting ]_vars

\* a submitted login returned a failure envelope, a handler's tenant fetch
\* failed, and handleSubmit has returned without invoking the success
\* callback: the error shown is the tenant fetch's
C24_Witness ==
    /\ HasReturned("login")
    /\ ret.submit
    /\ ~ret.result.success
    /\ calls = <<Finished("login")>>
    /\ form.successCalls = 0
    /\ ~form.isSubmitting
    /\ ctx.error = MsgCompanyFetchFailed

-----------------------------------------------------------------------------
(* Properties of the Session Context state *)

\* C25: clearError sets error to absent and leaves user, company and loading
\* as they were
C25_ClearErrorFrame ==
    [][ClearError =>
         /\ ctx'.error = None
         /\ ctx'.user = ctx.user
         /\ ctx'.company = ctx.company
         /\ ctx'.loading = ctx.loading]_vars

\* the only call made was a login that failed, which set error; a user is
\* present; error is absent again: clearError has run
C25_Witness ==
    /\ calls = <<Finished("login")>>
    /\ HasReturned("login")
    /\ ~ret.result.success
    /\ \A h \in DOMAIN handlers :
          handlers[h].companyResult = Nil \/ handlers[h].companyResult.success
    /\ ctx.user # Nil
    /\ ctx.company # Nil
    /\ ctx.error = None

\* a step that may change error: clearError, the start of a Session Context
\* action, the return of one with a failure envelope, a failed tenant fetch
ErrorChangeCause ==
    \/ ClearError
    \/ Len(calls') = Len(calls) + 1
    \/ \E i \in DOMAIN calls :
          /\ calls[i].pc # "done"
          /\ calls'[i].pc = "done"
          /\ ret'.result # Nil
          /\ ~ret'.result.success
    \/ \E h \in DOMAIN handlers : TenantFetchFails(h)

\* a step of the watcher alone that processes a notification without a failed
\* tenant fetch
NotificationStep ==
    \/ \E p \in Principals \cup {None} : BackendSessionChange(p)
    \/ \E h \in DOMAIN handlers, read \in ReadOutcomes : HandlerGetDoc(h, read)
    \/ \E h \in DOMAIN handlers, ok \in BOOLEAN : HandlerGetIdToken(h, ok)
    \/ \E h \in DOMAIN handlers, ok \in BOOLEAN : HandlerSignOut(h, ok)
    \/ \E h \in DOMAIN handlers : HandlerAfterSignOut(h)
    \/ \E h \in DOMAIN handlers :
          /\ HandlerGetCompany(h, [ok |-> TRUE, err |-> Nil])
          /\ handlers'[h].companyResult.success

\* C26: error changes only through clearError, the start or the failure of a
\* Session Context action, or a failed tenant fetch of a handler; a
\* notification processed without such a failure leaves error unchanged
C26_ErrorPersists ==
    [][ /\ ctx'.error # ctx.error => ErrorChangeCause
        /\ NotificationStep => ctx'.error = ctx.error ]_vars

\* a failed login set error, and a notification was processed with the tenant
\* loaded: the error is still there
C26_Witness ==
    /\ calls = <<Finished("login")>>
    /\ HasReturned("login")
    /\ ~ret.result.success
    /\ ctx.error = ret.result.error.message
    /\ \E h \in DOMAIN handlers :
          /\ handlers[h].pc = "done"
          /\ handlers[h].companyResult # Nil
          /\ handlers[h].companyResult.success
          /\ ctx.user = handlers[h].authUser
          /\ ctx.company = handlers[h].companyResult.data

\* the error codes loginUser's catch maps to messages of its own
MappedLoginCodes ==
    {"auth/user-not-found", "auth/wrong-password", "auth/too-many-requests",
     "auth/user-disabled"}

\* loginUser's sign-in was rejected with an error outside the mapped codes
SignInUnrecognized ==
    /\ HasReturned("login")
    /\ ret.trace = <<"signIn">>
    /\ ret.failedCall
    /\ ret.caught.code \notin MappedLoginCodes

\* C27: when sign-in fails with a code outside the mapped set, the failure
\* envelope carries that code and the backend's message; when the failure has
\* no code, the envelope's code is the fixed fallback login-failed
C27_Passthrough ==
    SignInUnrecognized =>
        /\ ~ret.result.success
        /\ ret.caught.code # None =>
              /\ ret.result.error.code = ret.caught.code
              /\ ret.result.error.message = ret.caught.message
        /\ ret.caught.code = None => ret.result.error.code = "login-failed"

C27_Witness ==
    /\ SignInUnrecognized
    /\ ret.caught = NetError
    /\ ret.result.error.code = "auth/network-request-failed"
    /\ ret.result.error.message = "network error"

\* handler h finishes in this step
HandlerFinishes(h) ==
    /\ h \notin DOMAIN handlers \/ handlers[h].pc # "done"
    /\ handlers'[h].pc = "done"

\* call i returns in this step
CallReturns(i) == calls[i].pc # "done" /\ calls'[i].pc = "done"

\* nothing has happened yet: no notification delivered, no call started
Untouched == delivered = <<>> /\ calls = <<>> /\ started = 0

\* C28: before the first notification and the first call, the Session Context
\* is {user absent, company absent, loading true, error absent}; a step in
\* which a handler finishes, on any of its paths, ends with loading false; a
\* step in which a login or logout call returns ends with loading false
C28_LoadingLifecycle ==
    [][ /\ Untouched =>
              ctx = [user |-> Nil, company |-> Nil, loading |-> TRUE, error |-> None]
        /\ \A h \in DOMAIN handlers' : HandlerFinishes(h) => ~ctx'.loading
        /\ \A i \in DOMAIN calls :
              (calls[i].op \in {"login", "logout"} /\ CallReturns(i))
                  => ~ctx'.loading ]_vars

\* the first notification ended with a failed tenant fetch, a login failed, a
\* logout returned: loading is false
C28_Witness ==
    /\ Len(handlers) >= 1
    /\ handlers[1].pc = "done"
    /\ handlers[1].companyResult # Nil
    /\ ~handlers[1].companyResult.success
    /\ calls = <<Finished("login"), Finished("logout")>>
    /\ ~ctx.loading

\* only notifications happened, and every handler has finished without a
\* failed remote call
NotificationsSettled ==
    /\ started = 0
    /\ delivered # <<>>
    /\ \A h \in DOMAIN handlers : handlers[h].pc = "done" /\ ~handlers[h].failed

\* C29: once every handler of a sequence of notifications has finished, user
\* is present iff the last notification carried a principal with an Identity
\* Record, and it is that principal's record
C29_EventualAgreement ==
    NotificationsSettled =>
        LET p == delivered[Len(delivered)] IN
        /\ ctx.user # Nil <=> (p # None /\ directory[p] # Nil)
        /\ ctx.user # Nil => ctx.user.id = p

\* C30: the Session Context user is never an Identity Record snapshot whose
\* is_active flag is false
C30_NoInactiveUser == ctx.user # Nil => ctx.user.is_active

\* C31: whenever user and company are both present, company is the Tenant
\* Record of that user: company.id = user.company_id
C31_CompanyOfUser ==
    (ctx.user # Nil /\ ctx.company # Nil) => ctx.company.id = ctx.user.company_id

\* loginUser returned a failure after the identity store accepted the credentials
LoginRejectedAfterSignIn ==
    /\ HasReturned("login")
    /\ ret.uid # None
    /\ ~ret.inner.raised
    /\ ~ret.inner.env.success

\* C32: when loginUser returns success = false after the identity store
\* accepted the credentials, it has issued the session revocation before
\* returning
C32_FailedLoginRevokes ==
    LoginRejectedAfterSignIn => \E k \in DOMAIN ret.trace : ret.trace[k] = "signOut"

\* C33: when createUser returns success = false, every credential it created
\* has an Identity Record in the directory: no orphaned credential is left
C33_CreateUserAllOrNothing ==
    [][Returns("createUser") =>
        (~ret.result.success =>
            \A u \in ret.created : u \in accounts => directory[u] # Nil)']_vars

\* C35: a step in which the Session Context's logout returns after logoutUser
\* reported a revocation failure leaves user and company unchanged and sets
\* error to the logout-failure message
C35_LogoutFailureKeepsSession ==
    [][\A i \in DOMAIN calls :
          ( /\ calls[i].op = "logout"
            /\ CallReturns(i)
            /\ ~ret'.inner.raised
            /\ ~ret'.inner.env.success )
          => /\ ctx'.user = ctx.user
             /\ ctx'.company = ctx.company
             /\ ctx'.error = MsgLogoutFailed]_vars

\* C34: once the watcher is detached, the observer callback is not invoked
\* again and the Session Context state is not updated any more
C34_DetachedIsSilent ==
    [][~subscribed => (cbLog' = cbLog /\ ctx' = ctx)]_vars

====
